---- MODULE Spec2Model ----
(***************************************************************************)
(* A model of the ai-doctor backend: the websocket chat consumer           *)
(* (chat/consumers.py), the chat service and the two completion gateways   *)
(* (chat/services.py, chat/simple_openai_service.py,                       *)
(* chat/openai_service.py) with the rate limiter and the TTS cache.        *)
(*                                                                         *)
(* Four specifications share the module:                                   *)
(*   Spec         the chat channel: connections, inbound frames, the       *)
(*                streaming relay of ChatConsumer.handle_chat_message;     *)
(*   SpecRespond  the completion gateways called directly, one call at a   *)
(*                time;                                                    *)
(*   SpecGateway  OpenAIService.get_medical_response with its RateLimiter  *)
(*                under a clock, calls overlapping;                        *)
(*   SpecTTS      OpenAIService.generate_voice_response over the cache.    *)
(* Each specification leaves the variables of the others unchanged.        *)
(***************************************************************************)
EXTENDS Integers, Sequences, FiniteSets, TLC

VARIABLES
    \* ---- settings and service construction (fixed after Init)
    ENABLE_OPENAI_INTEGRATION, \* settings.ENABLE_OPENAI_INTEGRATION
    client,                    \* SimpleOpenAIService.client is not None
    async_client,              \* SimpleOpenAIService.async_client is not None
    \* ---- chat channel
    conn_state,        \* connection -> "CONNECTING" | "OPEN" | "CLOSED"
    session_id,        \* connection -> session id of its URL (NoSession before connect)
    groups,            \* channel layer: session id -> set of subscribed connections
    sessions,          \* Session table: set of ids
    inbox,             \* connection -> text frames received and not yet dispatched
    arrived,           \* connection -> number of frames that have arrived
    frames,            \* connection -> set of handle_chat_message frames in flight
    outbox,            \* connection -> events sent on that socket, in order
    ai_response_data,  \* connection -> what the last gateway call returned
    \* ---- completion gateway (OpenAIService) and its rate limiter
    oa_client,         \* OpenAIService.client is not None
    now,               \* timezone.now(), in seconds
    requests,          \* RateLimiter.requests: timestamps, in order of recording
    calls,             \* get_medical_response calls awaiting the provider
    started,           \* log of the calls begun: time, rejected, contacted provider
    last_call,         \* the last gateway call that returned, with its result
    \* ---- speech synthesis gateway
    ENABLE_TEXT_TO_SPEECH, \* settings.ENABLE_TEXT_TO_SPEECH
    str_hash,          \* hash() of this process on the modelled texts
    cache,             \* django cache: key -> [data, expires]
    tts_calls,         \* generate_voice_response calls awaiting the provider
    tts_log,           \* log of the calls that returned
    \* ---- the message list sent to the provider
    MAX_CONVERSATION_HISTORY, \* settings.MAX_CONVERSATION_HISTORY
    prepared,          \* the last message list built, with what it was built from
    \* ---- animation service
    analysed,          \* the last text analysed for gestures, with the gestures
    \* ---- avatar channel (AvatarConsumer)
    av_state,          \* connection -> "CONNECTING" | "OPEN" | "CLOSED"
    av_session,        \* connection -> session id of its URL
    av_groups,         \* channel layer: session id -> channels in avatar_<session id>
    av_inbox,          \* connection -> text frames received and not yet dispatched
    av_queue,          \* channel layer: connection -> group messages not yet handled
    av_outbox,         \* connection -> events sent on that socket, in order
    av_published,      \* session id -> the messages sent to its group, in order
    \* ---- session store
    conversations,      \* Conversation table: rows [session, message_type, content]
    \* ---- HTTP fallback surface: the request handled and its JSON response
    http_response,
    \* ---- lip-sync helper: the last text and duration, with the samples
    lip_sync

chat_vars == <<conn_state, session_id, groups, sessions, inbox, arrived, frames,
               outbox, ai_response_data>>
config_vars == <<ENABLE_OPENAI_INTEGRATION, client, async_client>>
gateway_vars == <<oa_client, now, requests, calls, started, last_call>>
tts_vars == <<ENABLE_TEXT_TO_SPEECH, str_hash, cache, tts_calls, tts_log>>
prompt_vars == <<MAX_CONVERSATION_HISTORY, prepared>>
\* The variables of the parts that are called on their own.
animation_vars == <<analysed>>
avatar_vars == <<av_state, av_session, av_groups, av_inbox, av_queue, av_outbox, av_published>>
\* No code of the repository creates, changes or deletes a Conversation row.
store_vars == <<conversations>>
http_vars == <<http_response>>
lipsync_vars == <<lip_sync>>
other_vars == <<prompt_vars, animation_vars, avatar_vars, store_vars, http_vars, lipsync_vars>>
vars == <<config_vars, chat_vars, gateway_vars, tts_vars, other_vars>>
not_chat_vars == <<config_vars, gateway_vars, tts_vars, other_vars>>

-----------------------------------------------------------------------------
(* Python str operations, on TLA+ strings.                                 *)

Upper == <<"A","B","C","D","E","F","G","H","I","J","K","L","M",
           "N","O","P","Q","R","S","T","U","V","W","X","Y","Z">>
LowerCase == <<"a","b","c","d","e","f","g","h","i","j","k","l","m",
           "n","o","p","q","r","s","t","u","v","w","x","y","z">>

\* str.lower() of one character
LowerChar(ch) ==
    IF \E i \in 1..26 : Upper[i] = ch
    THEN LowerCase[CHOOSE i \in 1..26 : Upper[i] = ch]
    ELSE ch

RECURSIVE Lower(_)
\* str.lower()
Lower(s) ==
    IF Len(s) = 0 THEN ""
    ELSE IF Len(s) = 1 THEN LowerChar(s)
    ELSE Lower(SubSeq(s, 1, Len(s) \div 2)) \o Lower(SubSeq(s, Len(s) \div 2 + 1, Len(s)))

\* w in s  (substring test)
Contains(s, w) ==
    \E i \in 1..(Len(s) - Len(w) + 1) : SubSeq(s, i, i + Len(w) - 1) = w

\* any(word in s for word in words)
AnyIn(words, s) == \E w \in words : Contains(s, w)

IsSpace(ch) == ch \in {" ", "\t", "\n", "\r"}

RECURSIVE LStrip(_)
LStrip(s) ==
    IF Len(s) > 0 /\ IsSpace(SubSeq(s, 1, 1)) THEN LStrip(SubSeq(s, 2, Len(s))) ELSE s

RECURSIVE RStrip(_)
RStrip(s) ==
    IF Len(s) > 0 /\ IsSpace(SubSeq(s, Len(s), Len(s)))
    THEN RStrip(SubSeq(s, 1, Len(s) - 1)) ELSE s

\* str.strip()
Strip(s) == RStrip(LStrip(s))

-----------------------------------------------------------------------------
(* Inputs and provider outcomes.                                           *)

Conns == {"c1", "c2"}
SessionIds == {"s1", "s2"}
NoSession == "none"

\* The session ids of the URLs the connections are opened with.
UrlSessions == [c \in Conns |-> IF c = "c1" THEN {"s1"} ELSE SessionIds]

\* Total number of text frames the clients send, over all connections.
MaxInbound == 2

\* The texts of chat_message frames and the transcriptions of voice_input frames.
ChatMessages == {"hello"}
Transcriptions == {"", "I have a headache"}

\* A text frame as json.loads sees it: text that is no JSON, JSON that is no
\* object, or an object with its keys.
InboundFrames ==
    {[json |-> "invalid", obj |-> <<>>], [json |-> "nonobject", obj |-> <<>>]}
    \cup {[json |-> "object", obj |-> o] : o \in
            {[type |-> "chat_message", message |-> m] : m \in ChatMessages}
            \cup {[type |-> "voice_input", transcription |-> t] : t \in Transcriptions}
            \cup {[type |-> "chat_message"], [type |-> "voice_input"],
                  [type |-> "gesture_trigger", gesture |-> "wave"],
                  [type |-> "ping"], [gesture |-> "wave"]}}

\* One item of the provider's token stream: chunk.choices[0].delta.content (None
\* when has_content is FALSE) and whether finish_reason is set.
Chunk(text) == [has_content |-> TRUE, content |-> text, finish |-> FALSE]
LastChunk(text) == [has_content |-> TRUE, content |-> text, finish |-> TRUE]

\* The token streams the provider may produce.
Streams ==
    { <<Chunk(""), Chunk("Rest "), Chunk(" "), Chunk("well")>>,
      <<LastChunk("Ok."), Chunk("unread")>> }

\* What the streaming chat.completions.create call may do: raise, or yield a
\* stream.
StreamOpenOutcomes ==
    {[raises |-> TRUE, stream |-> <<>>]} \cup {[raises |-> FALSE, stream |-> s] : s \in Streams}

\* What one blocking chat.completions.create call may do: raise, return a
\* message whose content is None, or return a text.
ChatOutcomes ==
    {[kind |-> "raise", text |-> ""], [kind |-> "none", text |-> ""],
     [kind |-> "text", text |-> "Drink water."]}

-----------------------------------------------------------------------------
(* SimpleOpenAIService (chat/simple_openai_service.py).                    *)

SimpleResult(response, type) ==
    [response |-> response, gesture |-> "professional", mood |-> "professional",
     urgency |-> "low", type |-> type]

\* SimpleOpenAIService._get_fallback_response
simple_fallback_response(user_message) ==
    LET user_lower == Lower(user_message) IN
    SimpleResult(
        IF AnyIn({"hello", "hi", "hey"}, user_lower)
        THEN "Hello! I'm your AI assistant. How can I help you today?"
        ELSE IF AnyIn({"help", "assist"}, user_lower)
        THEN "I'm here to help! Please let me know what you need assistance with."
        ELSE IF AnyIn({"how are you", "how do you do"}, user_lower)
        THEN "I'm doing well, thank you for asking! How can I assist you today?"
        ELSE IF AnyIn({"thank", "thanks"}, user_lower)
        THEN "You're welcome! Is there anything else I can help you with?"
        ELSE "I understand you're asking about that. Could you please provide more details so I can better assist you?",
        "fallback")

\* SimpleOpenAIService.get_chat_response: `outcome` is what the provider does if
\* it is called.  A content of None fails at len(response_text) and is caught.
simple_get_chat_response(user_message, has_client, outcome) ==
    IF ~has_client THEN simple_fallback_response(user_message)
    ELSE IF outcome.kind = "text" THEN SimpleResult(outcome.text, "ai_response")
    ELSE simple_fallback_response(user_message)

RECURSIVE StreamText(_)
\* full_response of get_streaming_chat_response after reading `stream`: the
\* contents that are not None, up to and including the first item with a
\* finish_reason.
StreamText(stream) ==
    IF stream = <<>> THEN ""
    ELSE (IF Head(stream).has_content THEN Head(stream).content ELSE "")
         \o (IF Head(stream).finish THEN "" ELSE StreamText(Tail(stream)))

\* What get_streaming_chat_response returns after the stream was read to its end.
simple_stream_result(full_response) == SimpleResult(full_response, "ai_stream_response")

-----------------------------------------------------------------------------
(* ChatService (chat/services.py).                                         *)

ChatResult(message, type) ==
    [message |-> message, gesture |-> "professional", mood |-> "professional",
     urgency |-> "low", type |-> type]

\* ChatService.get_fallback_response: the first keyword of the table, in its
\* order, that the lowered message contains.
chat_fallback_response(user_message) ==
    LET user_lower == Lower(user_message) IN
    ChatResult(
        IF Contains(user_lower, "hello")
        THEN "Hello! I'm Dr. AI, your virtual medical assistant. How can I help you today?"
        ELSE IF Contains(user_lower, "pain")
        THEN "I understand you're experiencing pain. Can you describe where the pain is located and how severe it is on a scale of 1-10?"
        ELSE IF Contains(user_lower, "fever")
        THEN "A fever can indicate various conditions. Have you taken your temperature? Any other symptoms like headache or body aches?"
        ELSE IF Contains(user_lower, "feverish")
        THEN "I understand you're feeling feverish. This could be a sign of infection or illness. Have you taken your temperature? Any other symptoms like chills, headache, or body aches? If your fever is high (over 103F/39.4C) or you're experiencing severe symptoms, please seek immediate medical attention."
        ELSE IF Contains(user_lower, "appointment")
        THEN "I can help provide general health information, but for specific medical concerns, I recommend scheduling an appointment with your healthcare provider."
        ELSE "I'm here to help with your health questions. Could you please provide more details about your symptoms or concerns?",
        "fallback_response")

\* The dict ChatService builds from the gateway's dict (services.py 54-60, 103-109).
FromGateway(response_data) ==
    [message |-> response_data.response, gesture |-> response_data.gesture,
     mood |-> response_data.mood, urgency |-> response_data.urgency,
     type |-> response_data.type]

\* ChatService.get_medical_response (single shot).  The simple service is
\* constructed at import, so self.openai_service is set.
chat_get_medical_response(user_message, enabled, has_client, outcome) ==
    IF enabled
    THEN FromGateway(simple_get_chat_response(user_message, has_client, outcome))
    ELSE chat_fallback_response(user_message)

-----------------------------------------------------------------------------
(* ChatConsumer (chat/consumers.py).                                       *)

Event(type, text) == [type |-> type, text |-> text, gesture |-> "", mood |-> ""]
TerminalEvent(type, text) ==
    [type |-> type, text |-> text, gesture |-> "professional", mood |-> "professional"]

ApologyText == "Sorry, I encountered an error. Please try again."

\* The test of line 83 on the word buffer.
HasBoundary(buffer) ==
    Contains(buffer, " ") \/ Contains(buffer, ".") \/ Contains(buffer, ",")

\* stream_callback with `full_response = chunk_text` for `full_response +=
\* chunk_text`: the assembled text keeps only the last fragment.
callback_chunk_overwrite(st, chunk_text) ==
    LET buffer == st.current_word_buffer \o chunk_text
        flush == HasBoundary(buffer)
    IN  [full_response |-> chunk_text,
         current_word_buffer |-> IF flush THEN "" ELSE buffer,
         out |-> <<Event("stream_chunk", chunk_text)>>
                 \o (IF flush /\ Strip(buffer) # ""
                     THEN <<Event("stream_tts", Strip(buffer))>> ELSE <<>>)]

\* The text branch of stream_callback (lines 69-92): the new full_response, the
\* new word buffer and the events sent.
callback_chunk(st, chunk_text) ==
    LET full == st.full_response \o chunk_text
        buffer == st.current_word_buffer \o chunk_text
        flush == HasBoundary(buffer)
    IN  [full_response |-> full,
         current_word_buffer |-> IF flush THEN "" ELSE buffer,
         out |-> <<Event("stream_chunk", chunk_text)>>
                 \o (IF flush /\ Strip(buffer) # ""
                     THEN <<Event("stream_tts", Strip(buffer))>> ELSE <<>>)]

\* The final branch without the flush of the remaining buffer (lines 96-101).
callback_final_without_flush(st) ==
    [full_response |-> st.full_response,
     current_word_buffer |-> st.current_word_buffer,
     out |-> <<TerminalEvent("stream_end", st.full_response)>>]

\* The final branch of stream_callback (lines 94-112).
callback_final(st) ==
    [full_response |-> st.full_response,
     current_word_buffer |-> st.current_word_buffer,
     out |-> (IF Strip(st.current_word_buffer) # ""
              THEN <<Event("stream_tts", Strip(st.current_word_buffer))>> ELSE <<>>)
             \o <<TerminalEvent("stream_end", st.full_response)>>]

\* stream_callback(chunk_text, is_final): a non-empty text takes the text branch
\* whatever is_final is; an empty text with is_final unset does nothing.
stream_callback(st, chunk_text, is_final) ==
    IF chunk_text # "" THEN callback_chunk(st, chunk_text)
    ELSE IF is_final THEN callback_final(st)
    ELSE [full_response |-> st.full_response,
          current_word_buffer |-> st.current_word_buffer, out |-> <<>>]

\* json.loads(text_data) raises, or data.get fails on a value that is no dict.
ReceiveRaises(frame) == frame.json # "object"

\* data.get('type'), None when the key is absent
MessageType(data) == IF "type" \in DOMAIN data THEN data.type ELSE "None"

\* receive() without its voice_input branch.
IsChatOnly(data) == MessageType(data) = "chat_message"

\* The frame reaches handle_chat_message (lines 40-44, 136-139).
IsChat(data) ==
    \/ MessageType(data) = "chat_message"
    \/ /\ MessageType(data) = "voice_input"
       /\ "transcription" \in DOMAIN data
       /\ data.transcription # ""

\* data['message'] of line 51 raises KeyError.
ChatRaises(data) == MessageType(data) = "chat_message" /\ "message" \notin DOMAIN data

\* The argument of handle_chat_message.
UserMessage(data) ==
    IF MessageType(data) = "voice_input" THEN data.transcription ELSE data.message

\* The events stamped with the request they belong to: the connection, the
\* arrival number of its frame, and the subscribers of the connection's group
\* at the time they are sent.
Stamp(evs, c, req) ==
    [i \in 1..Len(evs) |->
        [type |-> evs[i].type, text |-> evs[i].text, gesture |-> evs[i].gesture,
         mood |-> evs[i].mood, conn |-> c, req |-> req,
         subs |-> groups[session_id[c]]]]

\* channel_layer.group_send in place of self.send: every subscriber of the
\* connection's group gets the events.
SendToGroup(c, req, evs) ==
    outbox' = [d \in Conns |->
                 IF d \in groups[session_id[c]] THEN outbox[d] \o Stamp(evs, c, req)
                 ELSE outbox[d]]

\* self.send(text_data=...): the events go to the socket of this consumer.
Send(c, req, evs) ==
    outbox' = [outbox EXCEPT ![c] = @ \o Stamp(evs, c, req)]

\* receive() starting the handler as a task instead of awaiting it.
CanDispatchWhileBusy(c) == TRUE

\* The consumer's dispatch loop awaits each handler before it takes the next
\* message: receive() awaits handle_chat_message (line 42).
CanDispatch(c) == frames[c] = {}

NewFrame(req, user_message) ==
    [req |-> req, user_message |-> user_message, pc |-> "called",
     full_response |-> "", current_word_buffer |-> "",
     svc_full_response |-> "", stream |-> <<>>]

NoResult == ChatResult("", "none")

ChatInit ==
    /\ conn_state = [c \in Conns |-> "CONNECTING"]
    /\ session_id = [c \in Conns |-> NoSession]
    /\ groups = [s \in SessionIds |-> {}]
    /\ sessions = {}
    /\ inbox = [c \in Conns |-> <<>>]
    /\ arrived = [c \in Conns |-> 0]
    /\ frames = [c \in Conns |-> {}]
    /\ outbox = [c \in Conns |-> <<>>]
    /\ ai_response_data = [c \in Conns |-> NoResult]

\* SimpleOpenAIService.initialize_client sets both clients, or neither.
ConfigInit ==
    /\ ENABLE_OPENAI_INTEGRATION \in BOOLEAN
    /\ client \in BOOLEAN
    /\ async_client = client

\* ChatConsumer.connect
Connect(c, sid) ==
    /\ conn_state[c] = "CONNECTING"
    /\ session_id' = [session_id EXCEPT ![c] = sid]
    /\ groups' = [groups EXCEPT ![sid] = @ \cup {c}]
    /\ conn_state' = [conn_state EXCEPT ![c] = "OPEN"]
    /\ sessions' = sessions \cup {sid}
    /\ UNCHANGED <<inbox, arrived, frames, outbox, ai_response_data>>
    /\ UNCHANGED not_chat_vars

\* ChatConsumer.disconnect, dispatched after the frames that arrived before it.
Disconnect(c) ==
    /\ conn_state[c] = "OPEN"
    /\ CanDispatch(c)
    /\ inbox[c] = <<>>
    /\ groups' = [groups EXCEPT ![session_id[c]] = @ \ {c}]
    /\ conn_state' = [conn_state EXCEPT ![c] = "CLOSED"]
    /\ UNCHANGED <<session_id, sessions, inbox, arrived, frames, outbox, ai_response_data>>
    /\ UNCHANGED not_chat_vars

RECURSIVE SumOver(_, _)
SumOver(f, S) ==
    IF S = {} THEN 0 ELSE LET x == CHOOSE y \in S : TRUE IN f[x] + SumOver(f, S \ {x})

TotalArrived == SumOver(arrived, Conns)

\* A client sends a text frame.
ClientSend(c, frame) ==
    /\ conn_state[c] = "OPEN"
    /\ TotalArrived < MaxInbound
    /\ arrived' = [arrived EXCEPT ![c] = @ + 1]
    /\ inbox' = [inbox EXCEPT ![c] = Append(@, [req |-> arrived[c] + 1, frame |-> frame])]
    /\ UNCHANGED <<conn_state, session_id, groups, sessions, frames, outbox, ai_response_data>>
    /\ UNCHANGED not_chat_vars

\* handle_chat_message(data) up to its first await after stream_start
\* (lines 50-63): the handler's locals and the stream_start event.
handle_chat_message(c, req, data) ==
    /\ frames' = [frames EXCEPT ![c] = @ \cup {NewFrame(req, data.message)}]
    /\ Send(c, req, <<Event("stream_start", "")>>)

\* The branches of receive() for a parsed frame (lines 40-48): chat_message
\* calls handle_chat_message(data), voice_input with a transcription calls
\* handle_chat_message({'message': transcription}), anything else sends and
\* starts nothing.
Dispatch(c, req, data) ==
    IF IsChat(data)
    THEN handle_chat_message(c, req, [message |-> UserMessage(data)])
    ELSE UNCHANGED <<frames, outbox>>

\* ChatConsumer.receive up to the first await of handle_chat_message.  An
\* exception that leaves receive() ends the consumer: the socket is closed
\* and disconnect() is not run.
Receive(c) ==
    /\ conn_state[c] = "OPEN"
    /\ inbox[c] # <<>>
    /\ CanDispatch(c)
    /\ LET req == Head(inbox[c]).req
           frame == Head(inbox[c]).frame
           data == frame.obj
       IN  IF ReceiveRaises(frame) \/ ChatRaises(data)
           THEN /\ conn_state' = [conn_state EXCEPT ![c] = "CLOSED"]
                /\ inbox' = [inbox EXCEPT ![c] = <<>>]
                /\ UNCHANGED <<frames, outbox>>
           ELSE /\ inbox' = [inbox EXCEPT ![c] = Tail(@)]
                /\ UNCHANGED conn_state
                /\ Dispatch(c, req, data)
    /\ UNCHANGED <<session_id, groups, sessions, arrived, ai_response_data>>
    /\ UNCHANGED not_chat_vars

-----------------------------------------------------------------------------
(* The gateway call of handle_chat_message (consumers.py 115-119), through  *)
(* ChatService.get_streaming_medical_response and                          *)
(* SimpleOpenAIService.get_streaming_chat_response, one await at a time.   *)

\* What ChatService.get_streaming_medical_response hands back for the dict of
\* the simple service: every exception is caught inside (services.py 110-128,
\* simple_openai_service.py 228-232), so nothing is raised to the consumer.
StreamingReturn(response_data) == [raised |-> FALSE, data |-> FromGateway(response_data)]

\* The same for the branch that calls ChatService.get_medical_response
\* (services.py 114-117).
RegularReturn(data) == [raised |-> FALSE, data |-> data]

CallbackState(fr) ==
    [full_response |-> fr.full_response, current_word_buffer |-> fr.current_word_buffer]

\* The await of line 115 returns or raises: the frame ends; the except clause
\* of lines 123-134 sends the apology if the call raised.
Return(c, fr, evs, ret) ==
    /\ frames' = [frames EXCEPT ![c] = @ \ {fr}]
    /\ Send(c, fr.req,
            evs \o (IF ret.raised THEN <<TerminalEvent("message", ApologyText)>> ELSE <<>>))
    /\ ai_response_data' = [ai_response_data EXCEPT ![c] = IF ret.raised THEN @ ELSE ret.data]

\* The call is entered.  With the integration disabled the regular response is
\* computed and no callback runs; without an async client the regular response
\* is passed to the callback once, with is_final set; otherwise the streaming
\* completion is created, which raises or yields a stream.
GatewayCall(c, fr, open, retry) ==
    /\ fr \in frames[c]
    /\ fr.pc = "called"
    /\ IF ~ENABLE_OPENAI_INTEGRATION
       THEN Return(c, fr, <<>>,
                   RegularReturn(chat_get_medical_response(fr.user_message, FALSE, client, retry)))
       ELSE IF ~async_client
       THEN LET regular == simple_get_chat_response(fr.user_message, client, retry)
                cb == stream_callback(CallbackState(fr), regular.response, TRUE)
            IN  Return(c, fr, cb.out, StreamingReturn(regular))
       ELSE IF open.raises
       THEN Return(c, fr, <<>>,
                   StreamingReturn(simple_get_chat_response(fr.user_message, client, retry)))
       ELSE /\ frames' = [frames EXCEPT ![c] =
                            (@ \ {fr}) \cup {[fr EXCEPT !.pc = "streaming", !.stream = open.stream]}]
            /\ UNCHANGED <<outbox, ai_response_data>>
    /\ UNCHANGED <<conn_state, session_id, groups, sessions, inbox, arrived>>
    /\ UNCHANGED not_chat_vars

\* One turn of the async for (lines 193-210).
StreamChunk(c, fr) ==
    /\ fr \in frames[c]
    /\ fr.pc = "streaming"
    /\ fr.stream # <<>>
    /\ LET chunk == Head(fr.stream)
           cb == IF chunk.has_content
                 THEN stream_callback(CallbackState(fr), chunk.content, FALSE)
                 ELSE stream_callback(CallbackState(fr), "", FALSE)
           next == [fr EXCEPT
                      !.svc_full_response =
                          IF chunk.has_content THEN @ \o chunk.content ELSE @,
                      !.full_response = cb.full_response,
                      !.current_word_buffer = cb.current_word_buffer,
                      !.stream = Tail(@),
                      !.pc = IF chunk.finish \/ Tail(fr.stream) = <<>>
                             THEN "final" ELSE "streaming"]
       IN  /\ frames' = [frames EXCEPT ![c] = (@ \ {fr}) \cup {next}]
           /\ Send(c, fr.req, cb.out)
    /\ UNCHANGED <<conn_state, session_id, groups, sessions, inbox, arrived, ai_response_data>>
    /\ UNCHANGED not_chat_vars

\* Reading the stream raises: the except clause of lines 228-232 answers with
\* the single-shot call, and no callback runs.
StreamFail(c, fr, retry) ==
    /\ fr \in frames[c]
    /\ fr.pc = "streaming"
    /\ Return(c, fr, <<>>,
              StreamingReturn(simple_get_chat_response(fr.user_message, client, retry)))
    /\ UNCHANGED <<conn_state, session_id, groups, sessions, inbox, arrived>>
    /\ UNCHANGED not_chat_vars

\* After the loop: callback("", is_final=True), then the return (lines 214-226).
StreamFinal(c, fr) ==
    /\ fr \in frames[c]
    /\ fr.pc = "final"
    /\ Return(c, fr, stream_callback(CallbackState(fr), "", TRUE).out,
              StreamingReturn(simple_stream_result(fr.svc_full_response)))
    /\ UNCHANGED <<conn_state, session_id, groups, sessions, inbox, arrived>>
    /\ UNCHANGED not_chat_vars

\* All frames a connection may have in flight (for the quantifiers of Next).
FramesOf(c) == frames[c]

Next ==
    \/ \E c \in Conns : \E sid \in UrlSessions[c] : Connect(c, sid)
    \/ \E c \in Conns : Disconnect(c)
    \/ \E c \in Conns, frame \in InboundFrames : ClientSend(c, frame)
    \/ \E c \in Conns : Receive(c)
    \/ \E c \in Conns : \E fr \in FramesOf(c) :
          \E open \in StreamOpenOutcomes, retry \in ChatOutcomes : GatewayCall(c, fr, open, retry)
    \/ \E c \in Conns : \E fr \in FramesOf(c) : StreamChunk(c, fr)
    \/ \E c \in Conns : \E fr \in FramesOf(c) : \E retry \in ChatOutcomes : StreamFail(c, fr, retry)
    \/ \E c \in Conns : \E fr \in FramesOf(c) : StreamFinal(c, fr)

-----------------------------------------------------------------------------
GatewayInit ==
    /\ oa_client = TRUE
    /\ now = 0
    /\ requests = <<>>
    /\ calls = {}
    /\ started = <<>>
    /\ last_call = <<>>

TtsInit ==
    /\ ENABLE_TEXT_TO_SPEECH = TRUE
    /\ str_hash = <<>>
    /\ cache = {}
    /\ tts_calls = {}
    /\ tts_log = <<>>

\* AvatarConsumer instances before connect; nothing in the channel layer.
AvatarInit ==
    /\ av_state = [c \in Conns |-> "CONNECTING"]
    /\ av_session = [c \in Conns |-> NoSession]
    /\ av_groups = [s \in SessionIds |-> {}]
    /\ av_inbox = [c \in Conns |-> <<>>]
    /\ av_queue = [c \in Conns |-> <<>>]
    /\ av_outbox = [c \in Conns |-> <<>>]
    /\ av_published = [s \in SessionIds |-> <<>>]

\* No message list built yet.
NoPrepared == [service |-> "none"]

PromptInit ==
    /\ MAX_CONVERSATION_HISTORY = 10
    /\ prepared = NoPrepared

\* The parts called on their own, not yet called.
\* ChatAPIView.post not yet called.
NoResponse == [handled |-> FALSE]

RestInit ==
    /\ conversations = {}
    /\ lip_sync = [done |-> FALSE]
    /\ http_response = NoResponse

OtherInit == PromptInit /\ analysed = [done |-> FALSE] /\ AvatarInit /\ RestInit

Init == ConfigInit /\ ChatInit /\ GatewayInit /\ TtsInit /\ OtherInit

Spec == Init /\ [][Next]_vars

-----------------------------------------------------------------------------
(* OpenAIService (chat/openai_service.py): the completion gateway with its  *)
(* rate limiter.                                                           *)

\* settings.OPENAI_RATE_LIMIT_RPM (RateLimiter.max_requests), kept small here.
OPENAI_RATE_LIMIT_RPM == 2
\* RateLimiter.time_window, in seconds
time_window == 60
\* The clock advances in steps of TickStep seconds, MaxTicks times.
TickStep == 30
MaxTicks == 3
\* The number of get_medical_response calls of a run.
MaxCalls == 3

\* The user messages of the direct calls (SpecRespond), and of the calls under
\* the clock (SpecGateway).
RespondMessages ==
    {"Hello doctor", "I have a headache", "My head is spinning", "I feel hot", "vitamins?"}
GatewayMessages == {"I feel hot"}

\* message.content of a completion, as json.loads sees it: None, text that is
\* no JSON, JSON that is no object, or an object with its keys.
Completions ==
    {[json |-> "none", raw |-> "", obj |-> <<>>],
     [json |-> "invalid", raw |-> "Please rest.", obj |-> <<>>],
     [json |-> "nonobject", raw |-> "[1]", obj |-> <<>>],
     [json |-> "object", raw |-> "{..nod..}",
      obj |-> [response |-> "Noted.", gesture |-> "nod", mood |-> "focused", urgency |-> "medium"]],
     [json |-> "object", raw |-> "{..dance..}",
      obj |-> [response |-> "Cheer up.", gesture |-> "dance", mood |-> "happy", urgency |-> "none"]],
     [json |-> "object", raw |-> "{}", obj |-> <<>>]}

\* What _make_chat_completion may do: raise (auth, rate limit, network), or
\* return a completion.
MedicalOutcomes ==
    {[raises |-> TRUE, completion |-> [json |-> "none", raw |-> "", obj |-> <<>>]]}
    \cup {[raises |-> FALSE, completion |-> k] : k \in Completions}

valid_gestures ==
    {"welcome", "examine", "prescribe", "reassure", "checkPulse",
     "listen", "think", "nod", "wave", "point", "explain", "empathy"}
valid_moods == {"professional", "concerned", "reassuring", "focused"}

\* OpenAIService._validate_gesture
validate_gesture(gesture) == IF gesture \in valid_gestures THEN gesture ELSE "professional"

\* OpenAIService._validate_mood
validate_mood(mood) == IF mood \in valid_moods THEN mood ELSE "professional"

\* dict.get(key, default)
Get(d, key, default) == IF key \in DOMAIN d THEN d[key] ELSE default

MedicalResult(response, gesture, mood, urgency, fallback) ==
    [raised |-> FALSE, response |-> response, gesture |-> gesture, mood |-> mood,
     urgency |-> urgency, fallback |-> fallback]

Raised == [raised |-> TRUE, response |-> "", gesture |-> "", mood |-> "",
           urgency |-> "", fallback |-> FALSE]

HeadacheAdvice == "For headaches, try rest, hydration, and over-the-counter pain relief if appropriate. Seek medical care for severe or persistent headaches."

\* OpenAIService._get_fallback_response: the first branch whose keyword the
\* lowered message contains.
medical_fallback_response(user_message) ==
    LET user_lower == Lower(user_message) IN
    IF AnyIn({"hello", "hi", "hey"}, user_lower)
    THEN MedicalResult("Hello! I'm Dr. AI. How can I help you with your health concerns today?",
                       "welcome", "professional", "low", TRUE)
    ELSE IF AnyIn({"pain", "hurt", "ache"}, user_lower)
    THEN MedicalResult("I understand you're experiencing pain. Can you describe the location and severity? For immediate severe pain, please seek medical attention.",
                       "examine", "concerned", "low", TRUE)
    ELSE IF AnyIn({"fever", "temperature", "hot"}, user_lower)
    THEN MedicalResult("Fever can indicate various conditions. Have you taken your temperature? Please monitor your symptoms and consult a healthcare provider if it persists.",
                       "checkPulse", "professional", "low", TRUE)
    ELSE IF AnyIn({"headache", "head"}, user_lower)
    THEN MedicalResult(HeadacheAdvice, "reassure", "reassuring", "low", TRUE)
    ELSE MedicalResult("I'm here to help with your health questions. Please describe your symptoms or concerns, and I'll provide general medical information. Always consult healthcare professionals for specific medical advice.",
                       "listen", "professional", "low", TRUE)

\* OpenAIService._parse_medical_response: only json.JSONDecodeError is caught;
\* a content of None (TypeError) or a JSON value without .get (AttributeError)
\* raises.
parse_medical_response(completion) ==
    IF completion.json = "invalid"
    THEN MedicalResult(completion.raw, "professional", "professional", "low", FALSE)
    ELSE IF completion.json = "object"
    THEN MedicalResult(Get(completion.obj, "response", completion.raw),
                       validate_gesture(Get(completion.obj, "gesture", "professional")),
                       validate_mood(Get(completion.obj, "mood", "professional")),
                       Get(completion.obj, "urgency", "low"), FALSE)
    ELSE Raised

\* The except clause logging and raising again, as generate_voice_response does.
medical_except_reraise(user_message) == Raised

\* The except clause of get_medical_response (lines 99-101).
medical_except(user_message) == medical_fallback_response(user_message)

\* get_medical_response from the provider's answer on (lines 87-101).
medical_after_provider(user_message, outcome) ==
    IF outcome.raises THEN medical_except(user_message)
    ELSE IF parse_medical_response(outcome.completion).raised THEN medical_except(user_message)
    ELSE parse_medical_response(outcome.completion)

\* The requests the limiter keeps at time t (line 425).
Pruned(reqs, t) == SelectSeq(reqs, LAMBDA req : t - req < time_window)

\* RateLimiter.can_make_request, after the pruning
can_make_request(reqs) == Len(reqs) < OPENAI_RATE_LIMIT_RPM

\* record_request moved into a finally clause: every provider call is recorded.
RecordsEveryCall(outcome) == TRUE

\* Whether the provider's answer is recorded by record_request (line 93).
Records(outcome) ==
    ~outcome.raises /\ ~parse_medical_response(outcome.completion).raised

\* SimpleOpenAIService.get_streaming_chat_response called without a callback:
\* the stream is opened and read (`fails`: reading raises), and a failure is
\* answered by get_chat_response.
simple_get_streaming_chat_response(user_message, has_async, has_client, open, fails, retry) ==
    IF ~has_async \/ open.raises \/ fails
    THEN simple_get_chat_response(user_message, has_client, retry)
    ELSE simple_stream_result(StreamText(open.stream))

not_gateway_vars == <<chat_vars, tts_vars, other_vars>>

GatewayConfigInit ==
    /\ ENABLE_OPENAI_INTEGRATION = TRUE
    /\ client \in BOOLEAN
    /\ async_client = client
    /\ oa_client \in BOOLEAN

NoRetry == [kind |-> "none", text |-> ""]

NoCall == [entry |-> "none", user_message |-> "", failure |-> "none",
           retry |-> NoRetry, result |-> Raised]

\* How a call of an entry point failed, for the log: "none" when the provider
\* answered and the answer was used.
MedicalFailure(outcome) ==
    IF outcome.raises THEN "provider_error"
    ELSE IF outcome.completion.json \in {"none", "nonobject"} THEN "malformed"
    ELSE "none"

SimpleFailure(has_client, outcome) ==
    IF ~has_client THEN "no_client"
    ELSE IF outcome.kind = "raise" THEN "provider_error"
    ELSE IF outcome.kind = "none" THEN "malformed"
    ELSE "none"

\* The clock.
Tick ==
    /\ now < TickStep * MaxTicks
    /\ now' = now + TickStep
    /\ UNCHANGED <<oa_client, requests, calls, started, last_call>>
    /\ UNCHANGED <<config_vars, not_gateway_vars>>

\* get_medical_response up to the await of the provider call (lines 67-87):
\* without a client the fallback is returned at once; the limiter prunes its
\* window and rejects, or the call goes to the provider.
MedicalBegin(user_message) ==
    /\ Len(started) < MaxCalls
    /\ LET kept == Pruned(requests, now)
           entry == [time |-> now, alone |-> calls = {},
                     rejected |-> oa_client /\ ~can_make_request(kept),
                     contacted |-> oa_client /\ can_make_request(kept)]
       IN  /\ started' = Append(started, entry)
           /\ IF ~oa_client
              THEN /\ last_call' = [entry |-> "medical", user_message |-> user_message,
                                    failure |-> "no_client", retry |-> NoRetry,
                                    result |-> medical_fallback_response(user_message)]
                   /\ UNCHANGED <<requests, calls>>
              ELSE /\ requests' = kept
                   /\ IF ~can_make_request(kept)
                      THEN /\ last_call' = [entry |-> "medical", user_message |-> user_message,
                                            failure |-> "rate_limit", retry |-> NoRetry,
                                            result |-> medical_except(user_message)]
                           /\ UNCHANGED calls
                      ELSE /\ calls' = calls \cup {[id |-> Len(started) + 1,
                                                   user_message |-> user_message]}
                           /\ UNCHANGED last_call
    /\ UNCHANGED <<oa_client, now>>
    /\ UNCHANGED <<config_vars, not_gateway_vars>>

\* The provider call returns or raises; the answer is parsed, the request
\* recorded, and the call returns (lines 87-101).
MedicalEnd(call, outcome) ==
    /\ call \in calls
    /\ calls' = calls \ {call}
    /\ requests' = IF Records(outcome) THEN Append(requests, now) ELSE requests
    /\ last_call' = [entry |-> "medical", user_message |-> call.user_message,
                     failure |-> MedicalFailure(outcome), retry |-> NoRetry,
                     result |-> medical_after_provider(call.user_message, outcome)]
    /\ UNCHANGED <<oa_client, now, started>>
    /\ UNCHANGED <<config_vars, not_gateway_vars>>

GatewayStateInit ==
    /\ now = 0
    /\ requests = <<>>
    /\ calls = {}
    /\ started = <<>>
    /\ last_call = NoCall

InitGateway == GatewayConfigInit /\ ChatInit /\ GatewayStateInit /\ TtsInit /\ OtherInit

NextGateway ==
    \/ Tick
    \/ \E user_message \in GatewayMessages : MedicalBegin(user_message)
    \/ \E call \in calls, outcome \in MedicalOutcomes : MedicalEnd(call, outcome)

SpecGateway == InitGateway /\ [][NextGateway]_vars

-----------------------------------------------------------------------------
(* The gateways called one call at a time, at one instant (SpecRespond).   *)

\* get_medical_response, from call to return, with no other call in between:
\* MedicalBegin followed by MedicalEnd.
MedicalCall(user_message, outcome) ==
    /\ calls = {}
    /\ LET kept == Pruned(requests, now) IN
       IF ~oa_client
       THEN /\ last_call' = [entry |-> "medical", user_message |-> user_message,
                             failure |-> "no_client", retry |-> NoRetry,
                             result |-> medical_fallback_response(user_message)]
            /\ UNCHANGED requests
       ELSE IF ~can_make_request(kept)
       THEN /\ last_call' = [entry |-> "medical", user_message |-> user_message,
                             failure |-> "rate_limit", retry |-> NoRetry,
                             result |-> medical_except(user_message)]
            /\ requests' = kept
       ELSE /\ last_call' = [entry |-> "medical", user_message |-> user_message,
                             failure |-> MedicalFailure(outcome), retry |-> NoRetry,
                             result |-> medical_after_provider(user_message, outcome)]
            /\ requests' = IF Records(outcome) THEN Append(kept, now) ELSE kept
    /\ UNCHANGED <<oa_client, now, calls, started>>
    /\ UNCHANGED <<config_vars, not_gateway_vars>>

\* The dict of the simple service, with the mark that the call returned.
Returned(d) ==
    [raised |-> FALSE, response |-> d.response, gesture |-> d.gesture, mood |-> d.mood,
     urgency |-> d.urgency, type |-> d.type]

\* SimpleOpenAIService.get_chat_response, called directly.
SimpleChat(user_message, outcome) ==
    /\ last_call' = [entry |-> "simple_chat", user_message |-> user_message,
                     failure |-> SimpleFailure(client, outcome), retry |-> NoRetry,
                     result |-> Returned(simple_get_chat_response(user_message, client, outcome))]
    /\ UNCHANGED <<oa_client, now, requests, calls, started>>
    /\ UNCHANGED <<config_vars, not_gateway_vars>>

RECURSIVE Consumed(_)
\* The items the async for reads from `stream`: up to and including the
\* first one with a finish_reason (lines 193-210).
Consumed(stream) ==
    IF stream = <<>> THEN <<>>
    ELSE IF Head(stream).finish THEN <<Head(stream)>>
    ELSE <<Head(stream)>> \o Consumed(Tail(stream))

RECURSIVE ChunkCallbacks(_)
\* The callback invocations of the loop for the items read: one per item
\* whose content is not None (lines 197-205).
ChunkCallbacks(items) ==
    IF items = <<>> THEN <<>>
    ELSE (IF Head(items).has_content
          THEN <<[chunk_text |-> Head(items).content, is_final |-> FALSE]>>
          ELSE <<>>)
         \o ChunkCallbacks(Tail(items))

\* How many items may have been read when reading the stream raises.
ReadPoints(open, fails) ==
    IF open.raises \/ ~fails THEN {0}
    ELSE {n \in 0..Len(Consumed(open.stream)) :
             n = Len(Consumed(open.stream)) => ~Consumed(open.stream)[n].finish}

\* The invocations of `callback` by get_streaming_chat_response, in order:
\* without an async client the regular response, once, with is_final set
\* (lines 138-140); otherwise the chunks read, and after the loop
\* ("", is_final=True) (lines 214-216); none by the except clause.
simple_streaming_callbacks(user_message, has_async, has_client, open, fails, read, retry) ==
    IF ~has_async
    THEN <<[chunk_text |-> simple_get_chat_response(user_message, has_client, retry).response,
            is_final |-> TRUE]>>
    ELSE IF open.raises THEN <<>>
    ELSE IF fails THEN ChunkCallbacks(SubSeq(Consumed(open.stream), 1, read))
    ELSE ChunkCallbacks(Consumed(open.stream)) \o <<[chunk_text |-> "", is_final |-> TRUE]>>

\* SimpleOpenAIService.get_streaming_chat_response, called directly, with a
\* callback that records its invocations.  `retry` is what the provider does
\* if get_chat_response calls it.
SimpleStreaming(user_message, open, fails, retry) ==
    /\ \E read \in ReadPoints(open, fails) :
         last_call' = [entry |-> "simple_streaming", user_message |-> user_message,
                       failure |-> IF ~async_client THEN "no_client"
                                   ELSE IF open.raises \/ fails THEN "provider_error"
                                   ELSE "none",
                       retry |-> retry,
                       callbacks |-> simple_streaming_callbacks(user_message, async_client,
                                                                client, open, fails, read, retry),
                       result |-> Returned(
                           simple_get_streaming_chat_response(user_message, async_client, client,
                                                              open, fails, retry))]
    /\ UNCHANGED <<oa_client, now, requests, calls, started>>
    /\ UNCHANGED <<config_vars, not_gateway_vars>>

InitRespond == GatewayConfigInit /\ ChatInit /\ GatewayStateInit /\ TtsInit /\ OtherInit

NextRespond ==
    \/ \E user_message \in RespondMessages, outcome \in MedicalOutcomes :
          MedicalCall(user_message, outcome)
    \/ \E user_message \in RespondMessages, outcome \in ChatOutcomes :
          SimpleChat(user_message, outcome)
    \/ \E user_message \in RespondMessages, open \in StreamOpenOutcomes,
          fails \in BOOLEAN, retry \in ChatOutcomes :
          SimpleStreaming(user_message, open, fails, retry)

SpecRespond == InitRespond /\ [][NextRespond]_vars

-----------------------------------------------------------------------------
(* OpenAIService.generate_voice_response over Django's cache, under a       *)
(* clock (SpecTTS).                                                        *)

\* settings.OPENAI_TTS_VOICE
OPENAI_TTS_VOICE == "alloy"
\* The timeout of cache.set, in seconds
cache_timeout == 3600
\* The instants of a run, in seconds: before, inside and at the end of the
\* life of an entry cached at 0.
TtsTimes == {0, 1800, 3600}
\* The number of generate_voice_response calls of a run.
MaxTtsCalls == 2

\* The `text` argument: a str, or a dict with a response and a message.
StrText(s) == [kind |-> "str", value |-> s, response |-> "", message |-> ""]
DictText(r, m) == [kind |-> "dict", value |-> "", response |-> r, message |-> m]
\* The `voice` argument not given (None); the empty string is falsy as well.
NoVoice == ""
VoiceArgs == {NoVoice, "alloy", "nova"}
\* The calls made: blank text, one text under each voice, another text.
TtsInputs ==
    {[text |-> StrText(" "), voice |-> NoVoice], [text |-> DictText("", "Rest"), voice |-> NoVoice]}
    \cup {[text |-> StrText("Hi"), voice |-> v] : v \in VoiceArgs}

\* response.content of the provider: any bytes, the empty bytes included.
AudioValues == {"", "mp3-A", "mp3-B"}
SpeechOutcomes ==
    {[raises |-> TRUE, content |-> ""]} \cup {[raises |-> FALSE, content |-> a] : a \in AudioValues}

\* str(text) of a dict argument.
DictStr(text) ==
    "{'response': '" \o text.response \o "', 'message': '" \o text.message \o "'}"

\* text_content (lines 296-299).
TextContent(text) ==
    IF text.kind = "dict"
    THEN IF text.response # "" THEN text.response
         ELSE IF text.message # "" THEN text.message
         ELSE DictStr(text)
    ELSE text.value

\* The text contents that reach the cache key.
TextContents == {TextContent(i.text) : i \in {t \in TtsInputs : Strip(TextContent(t.text)) # ""}}
\* hash() of a str: some integer per string, fixed for the process; two
\* strings may share one.
HashValues == {11, 23}

\* voice or settings.OPENAI_TTS_VOICE (line 303)
ResolveVoice(voice) == IF voice = NoVoice THEN OPENAI_TTS_VOICE ELSE voice

\* cache_key (line 306): f"tts_{hash(text_content)}_{voice}", kept as the
\* pair the string is formatted from.
CacheKey(text_content, voice) == <<str_hash[text_content], voice>>

\* LocMemCache: the entry under a key that has not expired, if any.
Live(key, t) == {e \in cache : e.key = key /\ t < e.expires}
\* cache.get: an entry found expired is deleted.
AfterGet(key, t) == {e \in cache : e.key # key \/ t < e.expires}
\* cache.set(key, data, timeout)
AfterSet(key, data, t, timeout) ==
    {e \in cache : e.key # key} \cup {[key |-> key, data |-> data, expires |-> t + timeout]}

\* The truth value of bytes (line 308): empty bytes are falsy.
Truthy(value) == value # ""

\* Whether cache.get gives a value that line 308 takes for a hit.
CacheHit(key, t) == \E e \in Live(key, t) : Truthy(e.data)
CachedAudio(key, t) == (CHOOSE e \in Live(key, t) : TRUE).data

\* A call in the log: its arguments, when it began and whether any other call
\* was in flight then, whether it went to the provider, and how it ended.
TtsEntry(text, voice, alone, provider, done, raised, audio) ==
    [text |-> text, voice |-> voice, began |-> now, alone |-> alone,
     provider |-> provider, done |-> done, raised |-> raised, audio |-> audio,
     ended |-> now]

\* The checks that raise before the cache is looked at (lines 292-301).
VoiceRaisesEarly(text) ==
    \/ ~oa_client
    \/ ~ENABLE_TEXT_TO_SPEECH
    \/ Strip(TextContent(text)) = ""

not_tts_vars == <<config_vars, chat_vars, requests, calls, started, last_call, other_vars>>

TtsTick ==
    /\ \E t \in TtsTimes : t > now
    /\ now' = CHOOSE t \in TtsTimes : t > now /\ \A u \in TtsTimes : u > now => t <= u
    /\ UNCHANGED <<oa_client, tts_vars, not_tts_vars>>

\* generate_voice_response up to the await of the provider call (lines
\* 291-321): it raises, returns the cached audio, or goes to the provider.
VoiceBegin(text, voice) ==
    /\ Len(tts_log) < MaxTtsCalls
    /\ LET key == CacheKey(TextContent(text), ResolveVoice(voice))
           alone == tts_calls = {}
       IN  IF VoiceRaisesEarly(text)
           THEN /\ tts_log' = Append(tts_log, TtsEntry(text, voice, alone, FALSE, TRUE, TRUE, ""))
                /\ UNCHANGED <<cache, tts_calls>>
           ELSE /\ cache' = AfterGet(key, now)
                /\ IF CacheHit(key, now)
                   THEN /\ tts_log' = Append(tts_log, TtsEntry(text, voice, alone, FALSE, TRUE,
                                                               FALSE, CachedAudio(key, now)))
                        /\ UNCHANGED tts_calls
                   ELSE /\ tts_log' = Append(tts_log, TtsEntry(text, voice, alone, TRUE, FALSE,
                                                               FALSE, ""))
                        /\ tts_calls' = tts_calls \cup {[id |-> Len(tts_log) + 1, key |-> key]}
    /\ UNCHANGED <<oa_client, now, ENABLE_TEXT_TO_SPEECH, str_hash, not_tts_vars>>

\* The provider call returns or raises (lines 321-333): the audio is cached
\* and returned, or the exception is logged and raised again.
VoiceEnd(call, outcome) ==
    /\ call \in tts_calls
    /\ tts_calls' = tts_calls \ {call}
    /\ IF outcome.raises
       THEN /\ tts_log' = [tts_log EXCEPT ![call.id].done = TRUE, ![call.id].raised = TRUE,
                                          ![call.id].ended = now]
            /\ UNCHANGED cache
       ELSE /\ tts_log' = [tts_log EXCEPT ![call.id].done = TRUE,
                                          ![call.id].audio = outcome.content,
                                          ![call.id].ended = now]
            /\ cache' = AfterSet(call.key, outcome.content, now, cache_timeout)
    /\ UNCHANGED <<oa_client, now, ENABLE_TEXT_TO_SPEECH, str_hash, not_tts_vars>>

InitTTS ==
    /\ ENABLE_OPENAI_INTEGRATION = TRUE /\ client = TRUE /\ async_client = TRUE
    /\ ChatInit /\ GatewayStateInit /\ OtherInit
    /\ oa_client \in BOOLEAN
    /\ ENABLE_TEXT_TO_SPEECH \in BOOLEAN
    /\ str_hash \in [TextContents -> HashValues]
    /\ cache = {}
    /\ tts_calls = {}
    /\ tts_log = <<>>

NextTTS ==
    \/ TtsTick
    \/ \E input \in TtsInputs : VoiceBegin(input.text, input.voice)
    \/ \E call \in tts_calls, outcome \in SpeechOutcomes : VoiceEnd(call, outcome)

SpecTTS == InitTTS /\ [][NextTTS]_vars

-----------------------------------------------------------------------------
(* The message list sent to the provider (SpecPrompt):                      *)
(* OpenAIService._prepare_medical_messages and _trim_conversation, and the  *)
(* list SimpleOpenAIService.get_chat_response builds.                      *)

\* The longest conversation history handed to a call, and the largest
\* configured window.
MaxHistory == 6
MaxWindow == 6
\* messages[-5:] of _trim_conversation
trim_keep == 5
\* conversation_history[-5:] of the simple service
simple_history_window == 5

not_prompt_vars ==
    <<config_vars, chat_vars, gateway_vars, tts_vars, animation_vars, avatar_vars, store_vars,
     http_vars,
     lipsync_vars>>

HistoryRoles == {"user", "assistant", "system"}
Message(role, content) == [role |-> role, content |-> content]
SystemMessage == Message("system", "system prompt")
CurrentMessage == Message("user", "current message")

\* The histories: any roles, the i-th message with content "turn i".
Histories ==
    UNION {{[i \in 1..n |-> Message(roles[i], "turn " \o ToString(i))] :
               roles \in [1..n -> HistoryRoles]} : n \in 0..MaxHistory}

\* Python's seq[start:] for any integer start.
SliceFrom(seq, start) ==
    LET from == IF start < 0
                THEN (IF Len(seq) + start < 0 THEN 0 ELSE Len(seq) + start)
                ELSE (IF start > Len(seq) THEN Len(seq) ELSE start)
    IN  SubSeq(seq, from + 1, Len(seq))

\* The history messages appended: those with role user or assistant.
Appended(recent_history) ==
    SelectSeq(recent_history, LAMBDA msg : msg.role \in {"user", "assistant"})

\* OpenAIService._prepare_medical_messages; an empty history is falsy.
prepare_medical_messages(conversation_history, window) ==
    <<SystemMessage>>
    \o (IF conversation_history # <<>>
        THEN Appended(SliceFrom(conversation_history, 0 - window))
        ELSE <<>>)
    \o <<CurrentMessage>>

\* OpenAIService._trim_conversation
trim_conversation(messages) ==
    LET system_msg == messages[1]
        recent_messages == SliceFrom(messages, 0 - trim_keep)
    IN  IF recent_messages[1].role # "system"
        THEN <<system_msg>> \o recent_messages
        ELSE <<system_msg>> \o Tail(recent_messages)

\* The list get_chat_response builds (simple_openai_service.py 73-102).
simple_messages(conversation_history) ==
    <<SystemMessage>>
    \o (IF conversation_history # <<>>
        THEN Appended(SliceFrom(conversation_history, 0 - simple_history_window))
        ELSE <<>>)
    \o <<CurrentMessage>>

\* get_medical_response, lines 77-87: the list is prepared and, when its token
\* count exceeds 0.8 * OPENAI_MAX_TOKENS (`exceeds`), trimmed; it is the list
\* passed to _make_chat_completion.  A list depends on nothing but the
\* arguments and the setting, so one call is made per run.
PrepareMedical(conversation_history, exceeds) ==
    /\ prepared = NoPrepared
    /\ LET messages == prepare_medical_messages(conversation_history, MAX_CONVERSATION_HISTORY)
       IN  prepared' = [service |-> "medical", history |-> conversation_history,
                        trimmed |-> exceeds, untrimmed |-> messages,
                        messages |-> IF exceeds THEN trim_conversation(messages) ELSE messages]
    /\ UNCHANGED <<MAX_CONVERSATION_HISTORY, not_prompt_vars>>

\* get_chat_response, lines 73-111.
PrepareSimple(conversation_history) ==
    /\ prepared = NoPrepared
    /\ prepared' = [service |-> "simple", history |-> conversation_history,
                    trimmed |-> FALSE, untrimmed |-> simple_messages(conversation_history),
                    messages |-> simple_messages(conversation_history)]
    /\ UNCHANGED <<MAX_CONVERSATION_HISTORY, not_prompt_vars>>

InitPrompt ==
    /\ ENABLE_OPENAI_INTEGRATION = TRUE /\ client = TRUE /\ async_client = TRUE
    /\ ChatInit /\ GatewayInit /\ TtsInit
    /\ MAX_CONVERSATION_HISTORY \in 0..MaxWindow
    /\ prepared = NoPrepared
    /\ analysed = [done |-> FALSE]
    /\ AvatarInit
    /\ RestInit

NextPrompt ==
    \/ \E h \in Histories, exceeds \in BOOLEAN : PrepareMedical(h, exceeds)
    \/ \E h \in Histories : PrepareSimple(h)

SpecPrompt == InitPrompt /\ [][NextPrompt]_vars

-----------------------------------------------------------------------------
(* AnimationService.analyze_text_for_gestures (animation/services.py),      *)
(* called on its own (SpecAnimation).                                      *)

\* The longest text analysed, in sentences.
MaxSentences == 3

\* Sentences, without their full stop.
Phrases ==
    {"Hello! I understand your concern, this looks serious",
     "Yes, because it is urgent", "I am sorry", "Rest well", "Exactly"}

RECURSIVE JoinSentences(_)
JoinSentences(sentences) ==
    IF sentences = <<>> THEN ""
    ELSE Head(sentences) \o "." \o (IF Len(sentences) > 1 THEN " " ELSE "")
         \o JoinSentences(Tail(sentences))

\* The texts: up to MaxSentences sentences, each closed by a full stop; as a
\* str, and as the `message` of a dict.
AnalysedStrings ==
    UNION {{JoinSentences(ps) : ps \in [1..n -> Phrases]} : n \in 0..MaxSentences}
AnalysedTexts ==
    {StrText(t) : t \in AnalysedStrings} \cup {DictText("", "Yes. I am sorry.")}

RECURSIVE SplitSentences(_)
\* text_content.split('.')
SplitSentences(s) ==
    IF ~Contains(s, ".") THEN <<s>>
    ELSE LET i == CHOOSE k \in 1..Len(s) :
                      /\ SubSeq(s, k, k) = "."
                      /\ \A j \in 1..(k - 1) : SubSeq(s, j, j) # "."
         IN  <<SubSeq(s, 1, i - 1)>> \o SplitSentences(SubSeq(s, i + 1, Len(s)))

\* A gesture of the list; timing and duration in tenths of a second.
Gesture(name, timing, duration) == [name |-> name, timing |-> timing, duration |-> duration]

\* The gestures appended before the loop (lines 35-39).
ImmediateGestures(text_lower) ==
    (IF AnyIn({"hello", "hi", "welcome"}, text_lower)
     THEN <<Gesture("wave", 0, 20)>> ELSE <<>>)
    \o (IF AnyIn({"yes", "correct", "exactly"}, text_lower)
        THEN <<Gesture("nod", 5, 15)>> ELSE <<>>)

\* The gestures one turn of the loop appends (lines 44-53).
SentenceGestures(sentence, i) ==
    LET timing == i * 30
        lowered == Lower(sentence)
    IN  (IF Contains(lowered, "explain") \/ Contains(lowered, "because")
         THEN <<Gesture("explain", timing, 25)>> ELSE <<>>)
        \o (IF AnyIn({"sorry", "understand your concern"}, lowered)
            THEN <<Gesture("empathy", timing, 20)>> ELSE <<>>)
        \o (IF AnyIn({"worried", "serious", "urgent"}, lowered)
            THEN <<Gesture("concern", timing, 20)>> ELSE <<>>)

RECURSIVE ContextualGestures(_, _)
\* The loop over enumerate(sentences), from index i on.
ContextualGestures(sentences, i) ==
    IF sentences = <<>> THEN <<>>
    ELSE SentenceGestures(Head(sentences), i) \o ContextualGestures(Tail(sentences), i + 1)

\* AnimationService.analyze_text_for_gestures
analyze_text_for_gestures(text) ==
    ImmediateGestures(Lower(TextContent(text)))
    \o ContextualGestures(SplitSentences(TextContent(text)), 0)

\* The texts and audio durations (milliseconds) of generate_lip_sync_data:
\* no word, blanks only, words with and without a letter of the phoneme table.
LipSyncTexts == {"", "  ", "why", "Hello why", "my rhythm", "Take two pills", "fry  42 eggs"}
LipSyncDurations == {600, 1200, 3000}

RECURSIVE SplitWords(_)
\* str.split(): the maximal runs of characters that are no whitespace.
SplitWords(s) ==
    LET t == LStrip(s) IN
    IF t = "" THEN <<>>
    ELSE LET n == CHOOSE k \in 1..Len(t) :
                      /\ \A j \in 1..k : ~IsSpace(SubSeq(t, j, j))
                      /\ (k = Len(t) \/ IsSpace(SubSeq(t, k + 1, k + 1)))
         IN  <<SubSeq(t, 1, n)>> \o SplitWords(SubSeq(t, n + 1, Len(t)))

\* phoneme_map, in the order of the dict (lines 103-113).
phoneme_map ==
    << [phoneme |-> "A", sounds |-> {"a", "ah", "ay"}],
       [phoneme |-> "E", sounds |-> {"e", "eh", "ee"}],
       [phoneme |-> "I", sounds |-> {"i", "ih", "eye"}],
       [phoneme |-> "O", sounds |-> {"o", "oh", "oo"}],
       [phoneme |-> "U", sounds |-> {"u", "uh", "you"}],
       [phoneme |-> "M", sounds |-> {"m", "p", "b"}],
       [phoneme |-> "L", sounds |-> {"l", "th"}],
       [phoneme |-> "S", sounds |-> {"s", "sh", "ch"}],
       [phoneme |-> "T", sounds |-> {"t", "d", "k", "g"}] >>

\* The entries of phoneme_map with a sound in the word.
MatchingPhonemes(word) == {k \in 1..Len(phoneme_map) : AnyIn(phoneme_map[k].sounds, word)}

\* The sample of a word: intensity in tenths.
LipSyncFrame(time, phoneme) == [time |-> time, phoneme |-> phoneme, intensity |-> 8]

\* One turn of the loop over enumerate(words) (lines 119-130): the sample of
\* the first matching phoneme, none if no phoneme matches.
WordFrames(word, i, time_per_word) ==
    IF MatchingPhonemes(word) = {} THEN <<>>
    ELSE <<LipSyncFrame(i * time_per_word,
              phoneme_map[CHOOSE k \in MatchingPhonemes(word) :
                              \A j \in MatchingPhonemes(word) : k <= j].phoneme)>>

RECURSIVE LipSyncLoop(_, _, _)
LipSyncLoop(words, i, time_per_word) ==
    IF words = <<>> THEN <<>>
    ELSE WordFrames(Head(words), i, time_per_word)
         \o LipSyncLoop(Tail(words), i + 1, time_per_word)

\* AnimationService.generate_lip_sync_data; the durations of LipSyncDurations
\* divide exactly by the word counts of LipSyncTexts.
generate_lip_sync_data(text, audio_duration) ==
    LET words == SplitWords(Lower(text))
        time_per_word == IF words # <<>> THEN audio_duration \div Len(words) ELSE 0
    IN  LipSyncLoop(words, 0, time_per_word)

not_animation_vars ==
    <<config_vars, chat_vars, gateway_vars, tts_vars, prompt_vars, avatar_vars, store_vars,
     http_vars,
     lipsync_vars>>

\* One call; the result depends on nothing but the text.
Analyse(text) ==
    /\ ~analysed.done
    /\ analysed' = [done |-> TRUE, text |-> TextContent(text),
                    gestures |-> analyze_text_for_gestures(text)]
    /\ UNCHANGED not_animation_vars

\* One call of generate_lip_sync_data.
LipSync(text, audio_duration) ==
    /\ ~lip_sync.done
    /\ lip_sync' = [done |-> TRUE, text |-> text, audio_duration |-> audio_duration,
                    frames |-> generate_lip_sync_data(text, audio_duration)]
    /\ UNCHANGED <<config_vars, chat_vars, gateway_vars, tts_vars, prompt_vars, animation_vars,
                   avatar_vars, store_vars, http_vars>>

InitAnimation ==
    /\ ENABLE_OPENAI_INTEGRATION = TRUE /\ client = TRUE /\ async_client = TRUE
    /\ ChatInit /\ GatewayInit /\ TtsInit /\ OtherInit

NextAnimation ==
    \/ \E text \in AnalysedTexts : Analyse(text)
    \/ \E text \in LipSyncTexts, audio_duration \in LipSyncDurations : LipSync(text, audio_duration)

SpecAnimation == InitAnimation /\ [][NextAnimation]_vars

-----------------------------------------------------------------------------
(* AvatarConsumer (chat/consumers.py 154-186) over the channel layer        *)
(* (SpecAvatar).  group_send puts the message on the channel of every       *)
(* member of the group; a consumer handles the frames of its socket and the *)
(* messages of its channel one at a time, each kind in its order.           *)

\* Total number of text frames the clients send on the avatar channel.
MaxAvatarInbound == 2

\* A text frame as json.loads sees it: text that is no JSON, or a JSON value
\* of any kind.
AvatarFrames ==
    {[json |-> "invalid", value |-> ""]}
    \cup {[json |-> "value", value |-> v] : v \in {"{'pose': 'wave'}", "[1, 2]"}}

not_avatar_vars ==
    <<config_vars, chat_vars, gateway_vars, tts_vars, prompt_vars, animation_vars, store_vars,
     http_vars,
     lipsync_vars>>

\* AvatarConsumer.connect
AvConnect(c, sid) ==
    /\ av_state[c] = "CONNECTING"
    /\ av_session' = [av_session EXCEPT ![c] = sid]
    /\ av_groups' = [av_groups EXCEPT ![sid] = @ \cup {c}]
    /\ av_state' = [av_state EXCEPT ![c] = "OPEN"]
    /\ UNCHANGED <<av_inbox, av_queue, av_outbox, av_published>>
    /\ UNCHANGED not_avatar_vars

\* AvatarConsumer.disconnect, dispatched after the frames that arrived
\* before it.
AvDisconnect(c) ==
    /\ av_state[c] = "OPEN"
    /\ av_inbox[c] = <<>>
    /\ av_groups' = [av_groups EXCEPT ![av_session[c]] = @ \ {c}]
    /\ av_state' = [av_state EXCEPT ![c] = "CLOSED"]
    /\ UNCHANGED <<av_session, av_inbox, av_queue, av_outbox, av_published>>
    /\ UNCHANGED not_avatar_vars

RECURSIVE TotalLen(_, _)
TotalLen(f, S) ==
    IF S = {} THEN 0 ELSE LET x == CHOOSE y \in S : TRUE IN Len(f[x]) + TotalLen(f, S \ {x})

\* The frames sent so far: each one is published or has ended its consumer.
AvatarFramesSent ==
    TotalLen(av_inbox, Conns) + TotalLen(av_published, SessionIds)
    + Cardinality({c \in Conns : av_state[c] = "CLOSED" /\ c \in av_groups[av_session[c]]})

\* A client sends a text frame.
AvClientSend(c, frame) ==
    /\ av_state[c] = "OPEN"
    /\ AvatarFramesSent < MaxAvatarInbound
    /\ av_inbox' = [av_inbox EXCEPT ![c] = Append(@, frame)]
    /\ UNCHANGED <<av_state, av_session, av_groups, av_queue, av_outbox, av_published>>
    /\ UNCHANGED not_avatar_vars

\* group_send delivering to every member but the sender.
RecipientsButSender(sid, sender) == av_groups[sid] \ {sender}

\* group_send delivering to the members of every avatar group.
RecipientsOfAnyGroup(sid, sender) == UNION {av_groups[s] : s \in SessionIds}

\* The channels group_send puts the message on: the members of the group.
Recipients(sid, sender) == av_groups[sid]

\* The channel layer putting a message at the head of a channel.
EnqueueFirst(queue, message) == <<message>> \o queue

\* The channel layer putting a message on a channel: at its end.
Enqueue(queue, message) == Append(queue, message)

\* AvatarConsumer.receive.  json.loads raising ends the consumer: the socket
\* is closed and disconnect() is not run.
AvReceive(c) ==
    /\ av_state[c] = "OPEN"
    /\ av_inbox[c] # <<>>
    /\ LET frame == Head(av_inbox[c])
           sid == av_session[c]
           message == [type |-> "avatar_update", data |-> frame.value,
                       group |-> sid, seq |-> Len(av_published[sid]) + 1]
       IN  IF frame.json = "invalid"
           THEN /\ av_state' = [av_state EXCEPT ![c] = "CLOSED"]
                /\ av_inbox' = [av_inbox EXCEPT ![c] = <<>>]
                /\ UNCHANGED <<av_queue, av_published>>
           ELSE /\ av_inbox' = [av_inbox EXCEPT ![c] = Tail(@)]
                /\ av_queue' = [d \in Conns |->
                                  IF d \in Recipients(sid, c)
                                  THEN Enqueue(av_queue[d], message) ELSE av_queue[d]]
                /\ av_published' = [av_published EXCEPT ![sid] =
                                      Append(@, [data |-> frame.value, sender |-> c,
                                                 subs |-> av_groups[sid]])]
                /\ UNCHANGED av_state
    /\ UNCHANGED <<av_session, av_groups, av_outbox>>
    /\ UNCHANGED not_avatar_vars

\* AvatarConsumer.avatar_update, for the next message of the channel.
AvatarUpdate(c) ==
    /\ av_state[c] = "OPEN"
    /\ av_queue[c] # <<>>
    /\ LET event == Head(av_queue[c]) IN
       av_outbox' = [av_outbox EXCEPT ![c] =
                       Append(@, [type |-> "avatar_state", data |-> event.data,
                                  group |-> event.group, seq |-> event.seq])]
    /\ av_queue' = [av_queue EXCEPT ![c] = Tail(@)]
    /\ UNCHANGED <<av_state, av_session, av_groups, av_inbox, av_published>>
    /\ UNCHANGED not_avatar_vars

InitAvatar ==
    /\ ENABLE_OPENAI_INTEGRATION = TRUE /\ client = TRUE /\ async_client = TRUE
    /\ ChatInit /\ GatewayInit /\ TtsInit /\ OtherInit

NextAvatar ==
    \/ \E c \in Conns : \E sid \in UrlSessions[c] : AvConnect(c, sid)
    \/ \E c \in Conns : AvDisconnect(c)
    \/ \E c \in Conns : \E frame \in AvatarFrames : AvClientSend(c, frame)
    \/ \E c \in Conns : AvReceive(c)
    \/ \E c \in Conns : AvatarUpdate(c)

SpecAvatar == InitAvatar /\ [][NextAvatar]_vars

-----------------------------------------------------------------------------
(* Properties of the chat channel, checked under Spec.                     *)

RECURSIVE ConcatTexts(_)
ConcatTexts(evs) == IF evs = <<>> THEN "" ELSE Head(evs).text \o ConcatTexts(Tail(evs))

\* The events of type `type` that connection c got for request req, among the
\* first n events of its socket.
EventsOfType(c, req, type, n) ==
    SelectSeq(SubSeq(outbox[c], 1, n), LAMBDA e : e.req = req /\ e.type = type)

\* C1: on every socket, the stream_chunk fragments of a request, concatenated in
\* the order sent, equal the complete_message of the stream_end of that request.
C1_ChunksMakeCompleteMessage ==
    \A c \in Conns : \A i \in 1..Len(outbox[c]) :
        outbox[c][i].type = "stream_end"
        => ConcatTexts(EventsOfType(c, outbox[c][i].req, "stream_chunk", i)) = outbox[c][i].text

\* A request ended by stream_end after two or more fragments.
C1_Witness ==
    \E c \in Conns : \E i \in 1..Len(outbox[c]) :
        /\ outbox[c][i].type = "stream_end"
        /\ Len(EventsOfType(c, outbox[c][i].req, "stream_chunk", i)) >= 2

\* C2: a connection has at most one handle_chat_message in flight, the events
\* on its socket are grouped by request in arrival order, and a request in
\* flight is the latest one that has events.
C2_OneTurnInArrivalOrder ==
    \A c \in Conns :
        /\ Cardinality(frames[c]) <= 1
        /\ \A i, j \in 1..Len(outbox[c]) : i < j => outbox[c][i].req <= outbox[c][j].req
        /\ \A fr \in frames[c] : \A i \in 1..Len(outbox[c]) : outbox[c][i].req <= fr.req

\* Two chat requests on one connection, the second arrived while the first was
\* being streamed, both with fragments sent.
C2_Witness ==
    \E c \in Conns : \E i, j \in 1..Len(outbox[c]) :
        /\ outbox[c][i].type = "stream_chunk"
        /\ outbox[c][j].type = "stream_chunk"
        /\ outbox[c][i].req < outbox[c][j].req

\* The types of the dicts the handler receives when the streaming call did not
\* complete: the regular fallback, the single-shot retry, the keyword fallback.
FailureTypes == {"fallback_response", "fallback", "ai_response"}

\* C3 as claimed: when the handler of a chat_message ends and the gateway call
\* had failed (provider error, provider unavailable, failure while streaming),
\* the socket has got exactly one apologetic `message` event for that request,
\* and the connection is open.
C3_Claim_ApologyOnGatewayFailure ==
    [][\A c \in Conns : \A fr \in frames[c] :
          (fr \notin frames'[c] /\ ai_response_data'[c].type \in FailureTypes)
          => /\ Len(SelectSeq(outbox'[c], LAMBDA e :
                      /\ e.req = fr.req /\ e.type = "message" /\ e.text = ApologyText
                      /\ e.gesture = "professional" /\ e.mood = "professional")) = 1
             /\ conn_state'[c] = "OPEN"]_vars

Malformed(frame) ==
    \/ frame.json = "invalid"
    \/ /\ frame.json = "object"
       /\ MessageType(frame.obj) \notin {"chat_message", "voice_input", "gesture_trigger"}

\* C5 as claimed: dispatching a malformed frame only removes it from the
\* queue: nothing is sent, no state changes, the connection stays open.
C5_Claim_MalformedDropped ==
    [][\A c \in Conns :
          (/\ inbox[c] # <<>>
           /\ Len(inbox'[c]) < Len(inbox[c])
           /\ Malformed(Head(inbox[c]).frame))
          => /\ conn_state'[c] = "OPEN"
             /\ inbox'[c] = Tail(inbox[c])
             /\ UNCHANGED <<outbox, frames, groups, sessions, session_id, ai_response_data>>]_vars

-----------------------------------------------------------------------------
(* Properties of the completion gateways.                                  *)

\* C6 as claimed: whatever the input and the provider's answer, the dict
\* get_medical_response returns has a gesture of the valid-gesture list and a
\* mood of the valid-mood list.  (SpecRespond)
C6_Claim_GestureAndMoodValid ==
    last_call.entry = "medical"
    => /\ last_call.result.gesture \in valid_gestures
       /\ last_call.result.mood \in valid_moods

\* The keyword-matched fallback of the service an entry point belongs to.
FallbackOf(entry, user_message) ==
    IF entry = "medical" THEN medical_fallback_response(user_message)
    ELSE Returned(simple_fallback_response(user_message))

RetrySucceeded ==
    /\ last_call.entry = "simple_streaming"
    /\ last_call.failure = "provider_error"
    /\ last_call.retry.kind = "text"

C8_Claim_HeadacheGetsHeadacheAdvice ==
    (/\ last_call.entry = "medical"
     /\ last_call.failure = "no_client"
     /\ Contains(Lower(last_call.user_message), "headache"))
    => /\ last_call.result.response = HeadacheAdvice
       /\ last_call.result.gesture = "reassure"

\* The calls begun before the i-th within time_window seconds of it.
BegunInWindow(i) == {j \in 1..(i - 1) : started[i].time - started[j].time < time_window}

\* C9 as claimed: a call begun, with no other call in flight, after
\* OPENAI_RATE_LIMIT_RPM calls were begun within the last time_window seconds
\* is rejected by the limiter and does not reach the provider.  (SpecGateway)
C9_Claim_OverBudgetRejected ==
    \A i \in 1..Len(started) :
        (oa_client /\ started[i].alone /\ Cardinality(BegunInWindow(i)) >= OPENAI_RATE_LIMIT_RPM)
        => started[i].rejected /\ ~started[i].contacted

-----------------------------------------------------------------------------
(* Properties of the speech gateway, checked under SpecTTS.                *)

\* The second of two calls made one after the other, nothing else in flight,
\* with the (text, voice) of the first, before the audio the first one got
\* from the provider and cached has expired.
RepeatsWithinTTL(i) ==
    /\ i + 1 \in DOMAIN tts_log
    /\ tts_log[i].alone /\ tts_log[i].provider /\ tts_log[i].done /\ ~tts_log[i].raised
    /\ tts_log[i + 1].alone /\ tts_log[i + 1].done /\ ~tts_log[i + 1].raised
    /\ tts_log[i + 1].text = tts_log[i].text
    /\ tts_log[i + 1].voice = tts_log[i].voice
    /\ tts_log[i + 1].began - tts_log[i].ended < cache_timeout

\* C10 as claimed: the second of two calls with one (text, voice) within the
\* TTL returns the audio of the first and does not call the provider,
\* whatever audio the provider returned.  (SpecTTS)
C10_Claim_SecondCallServedFromCache ==
    \A i \in DOMAIN tts_log :
        RepeatsWithinTTL(i)
        => /\ tts_log[i + 1].audio = tts_log[i].audio
           /\ ~tts_log[i + 1].provider

\* The same for the audio that is not empty.
C10_NonEmptyAudioServedFromCache ==
    \A i \in DOMAIN tts_log :
        (RepeatsWithinTTL(i) /\ tts_log[i].audio # "")
        => /\ tts_log[i + 1].audio = tts_log[i].audio
           /\ ~tts_log[i + 1].provider

-----------------------------------------------------------------------------
\* The cases of C11 for the i-th call: text-to-speech disabled, no provider
\* client, or the provider call made and failed.
DegradedCall(i) ==
    /\ tts_log[i].done
    /\ \/ ~ENABLE_TEXT_TO_SPEECH
       \/ ~oa_client
       \/ tts_log[i].provider /\ tts_log[i].raised

\* C11 as claimed: a call of generate_voice_response with text-to-speech
\* disabled, without a provider client, or whose provider call fails, returns
\* (null) and does not raise.  (SpecTTS)
C11_Claim_NullAndNeverRaises ==
    \A i \in DOMAIN tts_log : DegradedCall(i) => ~tts_log[i].raised

-----------------------------------------------------------------------------
RECURSIVE ConcatChunkTexts(_)
ConcatChunkTexts(cbs) ==
    IF cbs = <<>> THEN "" ELSE Head(cbs).chunk_text \o ConcatChunkTexts(Tail(cbs))

\* The callback was invoked with is_final = false for the fragments, then
\* once, last, with ("", is_final = true).
FragmentsThenFinal(cbs) ==
    /\ Len(cbs) >= 1
    /\ cbs[Len(cbs)] = [chunk_text |-> "", is_final |-> TRUE]
    /\ \A i \in 1..(Len(cbs) - 1) : ~cbs[i].is_final

\* C12 as claimed: in every run of the streaming call with a callback, the
\* async client missing and the stream failing included, the callback gets
\* the fragments with is_final = false and then ("", true) exactly once as
\* the last invocation, and the response returned is the concatenation of
\* the fragments passed to the callback.  (SpecRespond)
C12_Claim_CallbackProtocol ==
    last_call.entry = "simple_streaming"
    => /\ FragmentsThenFinal(last_call.callbacks)
       /\ last_call.result.response = ConcatChunkTexts(last_call.callbacks)

\* The same for the runs in which the stream was opened and read to its end.
C12_CallbackProtocolOfCompleteStreams ==
    (last_call.entry = "simple_streaming" /\ last_call.failure = "none")
    => /\ FragmentsThenFinal(last_call.callbacks)
       /\ last_call.result.response = ConcatChunkTexts(last_call.callbacks)

-----------------------------------------------------------------------------
(* Properties of the message list, checked under SpecPrompt.               *)

\* How many messages of the list have the role.
CountRole(messages, role) == Len(SelectSeq(messages, LAMBDA msg : msg.role = role))

\* The list is the system message and then the last messages of `whole`, in
\* their order.
SystemThenSuffix(messages, whole) ==
    /\ messages[1] = SystemMessage
    /\ Tail(messages) = SliceFrom(whole, Len(whole) - (Len(messages) - 1))

\* The system message is first and the only one, the current message last.
SystemFirstCurrentLast(messages) ==
    /\ messages[1] = SystemMessage
    /\ CountRole(messages, "system") = 1
    /\ messages[Len(messages)] = CurrentMessage

\* C13 as claimed: the list sent has the system message first and once and
\* the current user message last; it holds at most MAX_CONVERSATION_HISTORY
\* history turns, and a trimmed list is the system message followed by at
\* most 5 of the most recent messages in their order.  (SpecPrompt)
C13_Claim_MessageListShape ==
    prepared.service # "none"
    => /\ SystemFirstCurrentLast(prepared.messages)
       /\ Len(prepared.messages) - 2 <= MAX_CONVERSATION_HISTORY
       /\ prepared.trimmed
          => /\ Len(prepared.messages) - 1 <= trim_keep
             /\ SystemThenSuffix(prepared.messages, prepared.untrimmed)

-----------------------------------------------------------------------------
(* Properties of the gesture analysis, checked under SpecAnimation.        *)

\* The timings of the list never decrease.
AscendingTiming(gestures) ==
    \A i \in 1..(Len(gestures) - 1) : gestures[i].timing <= gestures[i + 1].timing

HasGesture(gestures, name) == \E i \in 1..Len(gestures) : gestures[i].name = name

ScenarioText == "Hello! I understand your concern, this looks serious."

\* C14 as claimed: the gesture list of every text is in ascending timing
\* order, and the list of the scenario text has a wave, an empathy and a
\* concern entry.  (SpecAnimation)
C14_Claim_AscendingTiming ==
    analysed.done
    => /\ AscendingTiming(analysed.gestures)
       /\ analysed.text = ScenarioText
          => /\ HasGesture(analysed.gestures, "wave")
             /\ HasGesture(analysed.gestures, "empathy")
             /\ HasGesture(analysed.gestures, "concern")

\* The scenario alone: its list has the three gestures, in ascending timing.
C14_ScenarioGestures ==
    (analysed.done /\ analysed.text = ScenarioText)
    => /\ AscendingTiming(analysed.gestures)
       /\ HasGesture(analysed.gestures, "wave")
       /\ HasGesture(analysed.gestures, "empathy")
       /\ HasGesture(analysed.gestures, "concern")

-----------------------------------------------------------------------------
(* Properties of the avatar channel, checked under SpecAvatar.             *)

\* The events of a sequence that relay the i-th message of group sid.
RelaysOf(events, sid, i) ==
    SelectSeq(events, LAMBDA e : e.group = sid /\ e.seq = i)

\* C15: for every message sent to a group, a connection that was subscribed
\* then and is open has exactly one avatar_state event for it, sent or on
\* its channel awaiting avatar_update; no connection is sent more than one,
\* none that was not subscribed is sent any, and the data of the event is the
\* inbound JSON value.  (SpecAvatar)
C15_RelayedVerbatimOnce ==
    \A sid \in SessionIds : \A i \in 1..Len(av_published[sid]) : \A c \in Conns :
        LET sent == RelaysOf(av_outbox[c], sid, i)
            queued == RelaysOf(av_queue[c], sid, i)
            message == av_published[sid][i]
        IN  /\ Len(sent) <= 1
            /\ \A k \in 1..Len(sent) :
                   sent[k].type = "avatar_state" /\ sent[k].data = message.data
            /\ c \notin message.subs => Len(sent) + Len(queued) = 0
            /\ (c \in message.subs /\ av_state[c] = "OPEN") => Len(sent) + Len(queued) = 1

\* A message sent to a group of two connections was relayed to both, the
\* sender included.
C15_Witness ==
    \E sid \in SessionIds : \E i \in 1..Len(av_published[sid]) :
        /\ av_published[sid][i].subs = Conns
        /\ \A c \in Conns : Len(RelaysOf(av_outbox[c], sid, i)) = 1

-----------------------------------------------------------------------------
(* Properties of the connections of the chat channel, checked under Spec.  *)

\* The steps of a connection's state: none, CONNECTING -> OPEN, OPEN -> CLOSED.
LifecycleSteps ==
    {<<st, st>> : st \in {"CONNECTING", "OPEN", "CLOSED"}}
    \cup {<<"CONNECTING", "OPEN">>, <<"OPEN", "CLOSED">>}

\* C16 as claimed: a connection goes CONNECTING -> OPEN -> CLOSED in that
\* order, and after every step it is in a group exactly if it is OPEN, the
\* group being that of its session, whose Session record exists.  (Spec)
C16_Claim_MemberExactlyWhileOpen ==
    [][\A c \in Conns :
          /\ <<conn_state[c], conn_state'[c]>> \in LifecycleSteps
          /\ (conn_state'[c] = "OPEN") <=> (\E sid \in SessionIds : c \in groups'[sid])
          /\ conn_state'[c] = "OPEN"
             => c \in groups'[session_id'[c]] /\ session_id'[c] \in sessions']_vars

-----------------------------------------------------------------------------
(* Properties of the handling of inbound events, checked under Spec.       *)

\* The row of a `user` turn of a session.
UserTurn(sid, content) == [session |-> sid, message_type |-> "user", content |-> content]

\* The frames of a connection whose gateway call is entered by this step.
Invoked(c) == {fr \in frames[c] : fr.pc = "called" /\ fr \notin frames'[c]}

\* C17 as claimed: when the gateway is invoked for a chat_message, the text
\* is in the Conversation table as a user turn of the connection's session.
\* (Spec)
C17_Claim_UserTurnPersistedFirst ==
    [][\A c \in Conns : \A fr \in Invoked(c) :
          UserTurn(session_id[c], fr.user_message) \in conversations]_vars

-----------------------------------------------------------------------------
\* receive() takes the frame at the head of c's inbox in this step and
\* survives it.
Dispatches(c) ==
    /\ conn_state[c] = "OPEN" /\ conn_state'[c] = "OPEN"
    /\ inbox[c] # <<>>
    /\ CanDispatch(c)
    /\ inbox'[c] = Tail(inbox[c])

\* The object of the frame at the head of c's inbox.
HeadData(c) == Head(inbox[c]).frame.obj

\* The events a connection is sent by this step.
NewEvents(m) == SubSeq(outbox'[m], Len(outbox[m]) + 1, Len(outbox'[m]))

\* The step starts no gateway call, and creates no Session or Conversation row.
NoOtherEffect ==
    /\ frames' = frames
    /\ ai_response_data' = ai_response_data
    /\ sessions' = sessions
    /\ conversations' = conversations

\* C18 as claimed: handling a gesture_trigger gives every subscriber of the
\* session's group an event with the frame's gesture, and does nothing else:
\* it starts no gateway call and stores nothing.  (Spec)
C18_Claim_GestureRelayedOnly ==
    [][\A c \in Conns :
          (Dispatches(c) /\ MessageType(HeadData(c)) = "gesture_trigger") =>
              /\ \A m \in groups[session_id[c]] :
                    \E i \in 1..Len(NewEvents(m)) :
                       /\ NewEvents(m)[i].type = "gesture_trigger"
                       /\ NewEvents(m)[i].gesture = HeadData(c).gesture
              /\ NoOtherEffect]_vars

\* The part of C18 the code does: a gesture_trigger changes nothing but the
\* inbox it is taken from.
C18_GestureHasNoEffect ==
    [][\A c \in Conns :
          (Dispatches(c) /\ MessageType(HeadData(c)) = "gesture_trigger") =>
              /\ NoOtherEffect
              /\ outbox' = outbox /\ groups' = groups]_vars

-----------------------------------------------------------------------------
\* data.get('transcription', '') is a non-empty text.
HasTranscription(data) == "transcription" \in DOMAIN data /\ data.transcription # ""

\* C19: the step that handles a voice_input with a non-empty transcription T
\* is the step a chat_message with message T takes in the same state (the
\* same frame of handler locals, from which every later event is computed,
\* the same stream_start, nothing else changed); a voice_input with an empty
\* or missing transcription sends nothing and starts nothing.  (Spec)
C19_VoiceInputAsChatMessage ==
    [][\A c \in Conns :
          (Dispatches(c) /\ MessageType(HeadData(c)) = "voice_input") =>
              /\ IF HasTranscription(HeadData(c))
                 THEN Dispatch(c, Head(inbox[c]).req,
                               [type |-> "chat_message", message |-> HeadData(c).transcription])
                 ELSE outbox' = outbox /\ frames' = frames
              /\ UNCHANGED <<session_id, groups, sessions, arrived, ai_response_data,
                             conversations>>]_vars

\* A voice_input with a transcription has been taken: its handler is at the
\* gateway call and its stream_start is the last event sent.
C19_Witness ==
    \E c \in Conns : \E fr \in frames[c] :
        /\ fr.user_message \in Transcriptions \ {""}
        /\ fr.pc = "called"
        /\ outbox[c] # <<>>
        /\ outbox[c][Len(outbox[c])].type = "stream_start"
        /\ outbox[c][Len(outbox[c])].req = fr.req

-----------------------------------------------------------------------------
(* ChatAPIView.post (chat/api_views.py), the HTTP fallback of the channel. *)

\* request.body as json.loads and data.get see it: text that is no JSON, JSON
\* that is no object, or an object whose `message` is absent, a string or a
\* value of another type, and whose `session_id` may be absent.
HttpMessages == {"hello", "", "   ", " I have pain ", "thanks"}
HttpBodies ==
    {[json |-> "invalid"], [json |-> "nonobject"]}
    \cup {[json |-> "object", message |-> [kind |-> k, text |-> ""], session_id |-> s] :
            k \in {"absent", "number"}, s \in {"absent", "s1"}}
    \cup {[json |-> "object", message |-> [kind |-> "str", text |-> m], session_id |-> s] :
            m \in HttpMessages, s \in {"absent", "s1"}}

\* JsonResponse({'success': False, 'error': ...})
HttpError(error) == [success |-> FALSE, error |-> error]

\* data.get('message', '').strip() raises AttributeError: data is no dict, or
\* the message is no string.
PostRaises(body) == body.json = "nonobject" \/ (body.json = "object" /\ body.message.kind = "number")

\* message of line 33
HttpMessage(body) == IF body.message.kind = "absent" THEN "" ELSE Strip(body.message.text)

\* data.get('session_id', 'default')
HttpSessionId(body) == IF body.session_id = "absent" THEN "default" ELSE body.session_id

\* TTSService.text_to_speech returns None, whatever its arguments.
text_to_speech(text, sid) == "None"

\* The gateway is called (line 45).
PostCallsGateway(body) == body.json = "object" /\ ~PostRaises(body) /\ HttpMessage(body) # ""

\* ChatAPIView.post: the JSON object of the response.
post(body, enabled, has_client, outcome) ==
    IF body.json = "invalid" THEN HttpError("Invalid JSON data")
    ELSE IF PostRaises(body) THEN HttpError("Internal server error. Please try again.")
    ELSE IF HttpMessage(body) = "" THEN HttpError("Message cannot be empty")
    ELSE LET response_data ==
                 chat_get_medical_response(HttpMessage(body), enabled, has_client, outcome)
         IN  [success |-> TRUE,
              message |-> response_data.message,
              gesture |-> response_data.gesture,
              mood |-> response_data.mood,
              urgency |-> response_data.urgency,
              audio_url |-> text_to_speech(response_data.message, HttpSessionId(body)),
              session_id |-> HttpSessionId(body)]

not_http_vars ==
    <<chat_vars, gateway_vars, tts_vars, prompt_vars, animation_vars, avatar_vars, store_vars,
     lipsync_vars>>

\* One POST /chat; the provider's outcome matters only if the gateway is called.
HttpPost(body, outcome) ==
    /\ http_response = NoResponse
    /\ http_response' =
           [handled |-> TRUE, body |-> body,
            gateway_called |-> PostCallsGateway(body),
            provider |-> IF PostCallsGateway(body) THEN outcome.kind ELSE "not called",
            response |-> post(body, ENABLE_OPENAI_INTEGRATION, client, outcome)]
    /\ UNCHANGED config_vars
    /\ UNCHANGED not_http_vars

InitHttp == ConfigInit /\ ChatInit /\ GatewayInit /\ TtsInit /\ OtherInit

NextHttp == \E body \in HttpBodies, outcome \in ChatOutcomes : HttpPost(body, outcome)

SpecHttp == InitHttp /\ [][NextHttp]_vars

\* The keys of the success response.
SuccessKeys == {"success", "message", "gesture", "mood", "urgency", "audio_url", "session_id"}

\* The message of the body is a non-empty string.
NonEmptyMessage(body) ==
    body.json = "object" /\ body.message.kind = "str" /\ body.message.text # ""

\* C21 as claimed: a POST with a non-empty message answers success = true with
\* all seven keys; an empty message or an invalid body answers success = false
\* with an error and does not call the gateway.  (SpecHttp)
C21_Claim_NonEmptyMessageSucceeds ==
    http_response # NoResponse =>
        IF NonEmptyMessage(http_response.body)
        THEN /\ DOMAIN http_response.response = SuccessKeys
             /\ http_response.response.success
        ELSE /\ DOMAIN http_response.response = {"success", "error"}
             /\ ~http_response.response.success
             /\ ~http_response.gateway_called

\* What the code does: the same with "non-empty" read as "non-blank".
C21_NonBlankMessageSucceeds ==
    http_response # NoResponse =>
        IF NonEmptyMessage(http_response.body) /\ Strip(http_response.body.message.text) # ""
        THEN /\ DOMAIN http_response.response = SuccessKeys
             /\ http_response.response.success
             /\ http_response.gateway_called
        ELSE /\ DOMAIN http_response.response = {"success", "error"}
             /\ ~http_response.response.success
             /\ ~http_response.gateway_called

-----------------------------------------------------------------------------
(* The Session table behind ChatConsumer.connect: the identifiers the route *)
(* admits (chat/routing.py) against the UUID primary key (chat/models.py). *)

\* Identifiers matching [0-9a-f-]+ of the route: two UUIDs, each written with
\* and without hyphens, and two texts that are no UUID.
UrlIdentifiers ==
    {"12345678-1234-5678-1234-567812345678", "12345678123456781234567812345678",
     "0000000a-0000-0000-0000-00000000000b", "0000000a00000000000000000000000b",
     "abc", "-"}

RECURSIVE RemoveHyphens(_)
\* str.replace('-', '')
RemoveHyphens(s) ==
    IF Len(s) = 0 THEN ""
    ELSE (IF SubSeq(s, 1, 1) = "-" THEN "" ELSE SubSeq(s, 1, 1))
         \o RemoveHyphens(SubSeq(s, 2, Len(s)))

\* UUIDField.to_python: uuid.UUID(hex=value) raises unless the value, without
\* its hyphens, has 32 hexadecimal digits (the route admits no other character).
UUIDRaises(value) == Len(RemoveHyphens(value)) # 32

\* The UUID a valid value denotes.
UUID(value) == RemoveHyphens(value)

\* Session.objects.get_or_create(id=...): the table afterwards.  The primary
\* key admits one row per UUID.
get_or_create_session(table, id) == table \cup {UUID(id)}

\* ChatConsumer.connect for an identifier of the route: group_add, accept,
\* then get_or_create_session; the exception of an identifier that is no UUID
\* leaves connect() and ends the consumer, disconnect() is not run.
SessionConnect(c, id) ==
    /\ conn_state[c] = "CONNECTING"
    /\ session_id' = [session_id EXCEPT ![c] = id]
    /\ groups' = [groups EXCEPT ![id] = @ \cup {c}]
    /\ IF UUIDRaises(id)
       THEN /\ conn_state' = [conn_state EXCEPT ![c] = "CLOSED"]
            /\ UNCHANGED sessions
       ELSE /\ conn_state' = [conn_state EXCEPT ![c] = "OPEN"]
            /\ sessions' = get_or_create_session(sessions, id)
    /\ UNCHANGED <<inbox, arrived, frames, outbox, ai_response_data>>
    /\ UNCHANGED not_chat_vars

InitSession ==
    /\ ENABLE_OPENAI_INTEGRATION = TRUE /\ client = TRUE /\ async_client = TRUE
    /\ conn_state = [c \in Conns |-> "CONNECTING"]
    /\ session_id = [c \in Conns |-> NoSession]
    /\ groups = [s \in UrlIdentifiers |-> {}]
    /\ sessions = {}
    /\ inbox = [c \in Conns |-> <<>>]
    /\ arrived = [c \in Conns |-> 0]
    /\ frames = [c \in Conns |-> {}]
    /\ outbox = [c \in Conns |-> <<>>]
    /\ ai_response_data = [c \in Conns |-> NoResult]
    /\ GatewayInit /\ TtsInit /\ OtherInit

NextSession ==
    \/ \E c \in Conns, id \in UrlIdentifiers : SessionConnect(c, id)
    \/ \E c \in Conns : Disconnect(c)

SpecSession == InitSession /\ [][NextSession]_vars

\* The identifiers that have connected so far.
EverConnected == {session_id[c] : c \in {d \in Conns : conn_state[d] # "CONNECTING"}}

\* C22 as claimed: after any sequence of connects and disconnects the table
\* holds exactly one Session for each distinct identifier that has ever
\* connected.  (SpecSession)
C22_Claim_OneSessionPerIdentifier ==
    /\ \A id \in EverConnected : ~UUIDRaises(id) /\ UUID(id) \in sessions
    /\ Cardinality(sessions) = Cardinality(EverConnected)

\* What the code keeps: one Session per UUID that a connection was opened
\* with, never deleted.
C22_OneSessionPerUUID ==
    sessions = {UUID(id) : id \in {i \in EverConnected : ~UUIDRaises(i)}}

-----------------------------------------------------------------------------
(* Properties of the audio cache, checked under SpecTTS.                   *)

\* The call was answered from the cache.
FromCache(e) == e.done /\ ~e.raised /\ ~e.provider

\* The earlier calls whose audio came from the provider.
Synthesised(i) == {j \in 1..(i - 1) : tts_log[j].provider /\ tts_log[j].done /\ ~tts_log[j].raised}

\* C23 as claimed: a call answered from the cache is answered with the audio
\* the provider gave an earlier call with the same text content and the same
\* resolved voice.  (SpecTTS)
C23_Claim_CachedOnlyForSameTextAndVoice ==
    \A i \in 1..Len(tts_log) :
        FromCache(tts_log[i]) =>
            \E j \in Synthesised(i) :
                /\ TextContent(tts_log[j].text) = TextContent(tts_log[i].text)
                /\ ResolveVoice(tts_log[j].voice) = ResolveVoice(tts_log[i].voice)
                /\ tts_log[j].audio = tts_log[i].audio

\* The part about the voice: cached audio is never returned under another
\* resolved voice than the one it was synthesised with.
C23_CachedOnlyForSameVoice ==
    \A i \in 1..Len(tts_log) :
        FromCache(tts_log[i]) =>
            \E j \in Synthesised(i) :
                /\ ResolveVoice(tts_log[j].voice) = ResolveVoice(tts_log[i].voice)
                /\ tts_log[j].audio = tts_log[i].audio

\* The whole of C23 when hash() gives the texts of the run different values.
C23_SameTextAndVoiceWithoutCollision ==
    (\A a, b \in TextContents : str_hash[a] = str_hash[b] => a = b)
        => C23_Claim_CachedOnlyForSameTextAndVoice

-----------------------------------------------------------------------------
(* Order of the events of one request, checked under Spec.                *)

\* The events connection c got for request req, in the order sent.
RequestEvents(c, req) == SelectSeq(outbox[c], LAMBDA e : e.req = req)

\* The requests connection c got events for.
RequestsOf(c) == {outbox[c][i].req : i \in 1..Len(outbox[c])}

RECURSIVE WordBuffer(_, _)
\* The word buffer after the events evs, recomputed from them: the fragments
\* sent since the last stream_tts.  With drop_blank, a buffer of blanks that
\* holds a boundary is emptied without an event, as lines 83-92 do.
WordBuffer(evs, drop_blank) ==
    IF evs = <<>> THEN ""
    ELSE LET e == evs[Len(evs)]
             before == WordBuffer(SubSeq(evs, 1, Len(evs) - 1), drop_blank)
         IN  IF e.type = "stream_tts" THEN ""
             ELSE IF e.type # "stream_chunk" THEN before
             ELSE IF drop_blank /\ HasBoundary(before \o e.text) /\ Strip(before \o e.text) = ""
             THEN ""
             ELSE before \o e.text

\* The order of the events evs of one request: stream_start comes first and
\* once; after a stream_chunk that leaves a boundary in the word buffer the
\* next event is the stream_tts of the stripped buffer, and no other
\* stream_chunk is followed by a stream_tts; stream_end is the last event, and
\* it is preceded by the stream_tts of the remaining buffer exactly when that
\* buffer is not blank.
StreamOrder(evs, drop_blank) ==
    /\ evs[1].type = "stream_start"
    /\ \A i \in 2..Len(evs) : evs[i].type # "stream_start"
    /\ \A i \in 1..Len(evs) :
          LET buffer == WordBuffer(SubSeq(evs, 1, i), drop_blank)
              next_is_tts == i < Len(evs) /\ evs[i + 1].type = "stream_tts"
              next_is_end == i < Len(evs) /\ evs[i + 1].type = "stream_end"
          IN  /\ evs[i].type = "stream_chunk" /\ HasBoundary(buffer)
                    => next_is_tts /\ evs[i + 1].text = Strip(buffer)
              /\ evs[i].type = "stream_chunk" /\ ~HasBoundary(buffer) /\ next_is_tts
                    => /\ evs[i + 1].text = Strip(buffer)
                       /\ i + 1 < Len(evs) /\ evs[i + 2].type = "stream_end"
              /\ next_is_end => Strip(buffer) = ""
              /\ evs[i].type = "stream_end" => i = Len(evs)
              /\ evs[i].type = "stream_tts" => i > 1 /\ evs[i - 1].type = "stream_chunk"

\* C24 as claimed: the events of every request follow the order of the
\* sentence, a stream_tts being sent as soon as the word buffer holds a space,
\* a period or a comma.  (Spec)
C24_Claim_StreamEventOrder ==
    \A c \in Conns : \A req \in RequestsOf(c) : StreamOrder(RequestEvents(c, req), FALSE)

\* What the code does: the same order, except that a buffer of blanks is
\* emptied at a boundary without a stream_tts.
C24_StreamEventOrderDroppingBlanks ==
    \A c \in Conns : \A req \in RequestsOf(c) : StreamOrder(RequestEvents(c, req), TRUE)

-----------------------------------------------------------------------------
(* Properties of the lip-sync helper, checked under SpecAnimation.         *)

\* The words of the text of the call.
LipSyncWords == SplitWords(Lower(lip_sync.text))

\* C25 as claimed: one sample per word, the sample of the i-th word (0-based)
\* at i * duration / word_count, so in ascending time; no sample and no error
\* for a text without words.  (SpecAnimation)
C25_Claim_OneSamplePerWord ==
    lip_sync.done =>
        /\ Len(lip_sync.frames) = Len(LipSyncWords)
        /\ \A k \in 1..Len(lip_sync.frames) :
              lip_sync.frames[k].time * Len(LipSyncWords) = (k - 1) * lip_sync.audio_duration
        /\ \A j, k \in 1..Len(lip_sync.frames) :
              j < k => lip_sync.frames[j].time <= lip_sync.frames[k].time

\* What the code does: one sample for each word that holds a sound of the
\* table, at the time slot of that word, in ascending time; none for a text
\* without words.
C25_OneSamplePerMatchingWord ==
    lip_sync.done =>
        LET matching == {i \in 1..Len(LipSyncWords) : MatchingPhonemes(LipSyncWords[i]) # {}}
        IN  /\ Len(lip_sync.frames) = Cardinality(matching)
            /\ \A k \in 1..Len(lip_sync.frames) :
                  \E i \in matching :
                     /\ Cardinality({j \in matching : j <= i}) = k
                     /\ lip_sync.frames[k].time * Len(LipSyncWords)
                            = (i - 1) * lip_sync.audio_duration
            /\ \A j, k \in 1..Len(lip_sync.frames) :
                  j < k => lip_sync.frames[j].time < lip_sync.frames[k].time

-----------------------------------------------------------------------------
(* Termination of a request on its socket, checked under Spec.            *)

\* The terminal events among evs: stream_end, or the apologetic message.
TerminalEvents(evs) == SelectSeq(evs, LAMBDA e : e.type \in {"stream_end", "message"})

\* The handler of request req of connection c has returned.
HandlerDone(c, req) == \A fr \in frames[c] : fr.req # req

\* C26 as claimed, in its safety form: once the handler of a request that
\* sent stream_start has returned, the socket has got exactly one terminal
\* event for it, whatever path the gateway call took.  (Spec)
C26_Claim_OneTerminalEvent ==
    \A c \in Conns : \A req \in RequestsOf(c) :
        HandlerDone(c, req) => Len(TerminalEvents(RequestEvents(c, req))) = 1

\* What holds on every path: never more than one terminal event, and nothing
\* of the request after it.
C26_AtMostOneTerminalEvent ==
    \A c \in Conns : \A req \in RequestsOf(c) :
        LET evs == RequestEvents(c, req) IN
        /\ Len(TerminalEvents(evs)) <= 1
        /\ \A i \in 1..Len(evs) : evs[i].type \in {"stream_end", "message"} => i = Len(evs)

-----------------------------------------------------------------------------
(* The text on the TTS path of a request, checked under Spec.             *)

RECURSIVE WithoutWhitespace(_)
\* The text with its whitespace characters removed.
WithoutWhitespace(t) ==
    IF Len(t) = 0 THEN ""
    ELSE (IF IsSpace(SubSeq(t, 1, 1)) THEN "" ELSE SubSeq(t, 1, 1))
         \o WithoutWhitespace(SubSeq(t, 2, Len(t)))

\* C27: when stream_end is sent, the texts of the stream_tts events of its
\* request, concatenated in the order sent and with whitespace removed, equal
\* complete_message with whitespace removed; no stream_tts has an empty text.
\* (Spec)
C27_TtsTextsMakeCompleteMessage ==
    \A c \in Conns : \A i \in 1..Len(outbox[c]) :
        /\ outbox[c][i].type = "stream_tts" => outbox[c][i].text # ""
        /\ outbox[c][i].type = "stream_end" =>
              WithoutWhitespace(ConcatTexts(EventsOfType(c, outbox[c][i].req, "stream_tts", i)))
                  = WithoutWhitespace(outbox[c][i].text)

\* A request ended by stream_end whose text went out in two stream_tts events,
\* one flushed at a boundary and one at the end, with a fragment of blanks
\* dropped in between.
C27_Witness ==
    \E c \in Conns : \E i \in 1..Len(outbox[c]) :
        /\ outbox[c][i].type = "stream_end"
        /\ Len(EventsOfType(c, outbox[c][i].req, "stream_tts", i)) = 2
        /\ Len(EventsOfType(c, outbox[c][i].req, "stream_chunk", i)) = 3
        /\ ConcatTexts(EventsOfType(c, outbox[c][i].req, "stream_tts", i)) # outbox[c][i].text

-----------------------------------------------------------------------------
(* The limiter under interleaved calls, checked under SpecGateway.        *)

\* The calls, up to the i-th, that went to the provider less than time_window
\* seconds before the i-th began.
ContactedInWindow(i) ==
    {j \in 1..i : started[j].contacted /\ started[i].time - started[j].time < time_window}

\* C28 as claimed: the provider calls started within any window of
\* time_window seconds never exceed OPENAI_RATE_LIMIT_RPM, however the calls
\* are interleaved.  (SpecGateway)
C28_Claim_ProviderCallsWithinBudget ==
    \A i \in 1..Len(started) :
        started[i].contacted => Cardinality(ContactedInWindow(i)) <= OPENAI_RATE_LIMIT_RPM

\* The same for the calls awaiting the provider at one instant.
C28_InFlightWithinBudget == Cardinality(calls) <= OPENAI_RATE_LIMIT_RPM

-----------------------------------------------------------------------------
(* Isolation of sessions, on both channels.                               *)

\* The events of a sequence, as a set.
Range(seq) == {seq[i] : i \in 1..Len(seq)}

\* C29: whatever a connection is sent, or has on its channel to be sent, was
\* caused by a message on a connection of its own session: on the avatar
\* channel the event carries the group it was published to, on the chat
\* channel the connection that submitted the request.  (SpecAvatar; the chat
\* half is exercised under Spec)
C29_SessionsIsolated ==
    \A c \in Conns :
        /\ \A e \in Range(av_outbox[c]) \cup Range(av_queue[c]) : e.group = av_session[c]
        /\ \A e \in Range(outbox[c]) : session_id[e.conn] = session_id[c]

\* Two open avatar connections of different sessions; a message published on
\* the first was relayed to its sender and nothing reached the second.
C29_Witness ==
    \E c, d \in Conns :
        /\ av_state[c] = "OPEN" /\ av_state[d] = "OPEN"
        /\ av_session[c] # av_session[d]
        /\ Len(av_published[av_session[c]]) >= 1
        /\ av_published[av_session[c]][1].sender = c
        /\ Len(av_outbox[c]) >= 1
        /\ av_outbox[d] = <<>> /\ av_queue[d] = <<>>

\* The chat half at work: two open chat connections of different sessions,
\* one of them sent the events of its own request.
C29_ChatWitness ==
    \E c, d \in Conns :
        /\ conn_state[c] = "OPEN" /\ conn_state[d] = "OPEN"
        /\ session_id[c] # session_id[d]
        /\ Len(outbox[c]) >= 2
        /\ outbox[d] = <<>>

-----------------------------------------------------------------------------
(* What changes the limiter's window, checked under SpecGateway.          *)

\* This step is the return of a call whose provider call succeeded and whose
\* answer was parsed.
ReturnsParsedAnswer == calls' # calls /\ calls' \subseteq calls /\ last_call'.failure = "none"

\* The window without the entries of age `limit` and more.
WithoutEntriesOfAge(limit) == SelectSeq(requests, LAMBDA req : now - req < limit)

\* C30 as claimed: a timestamp is added exactly by the return of a call whose
\* provider call succeeded and was parsed; every other step (a rejected call,
\* the no-client fallback, a failed provider call or parse) leaves the window
\* as it was, apart from dropping the entries older than time_window seconds.
\* (SpecGateway)
C30_Claim_RecordedOnlyAfterSuccess ==
    [][IF ReturnsParsedAnswer
       THEN requests' = Append(requests, now)
       ELSE requests' \in {requests, WithoutEntriesOfAge(time_window + 1)}]_vars

\* C30 as the code has it: the same, the entries dropped being those of
\* time_window seconds and more.
C30_RecordedOnlyAfterSuccess ==
    [][IF ReturnsParsedAnswer
       THEN requests' = Append(requests, now)
       ELSE requests' \in {requests, WithoutEntriesOfAge(time_window)}]_vars

\* A provider call failed, or its answer could not be parsed, after another
\* call had been recorded; the window still holds that one entry only.
C30_Witness ==
    /\ last_call.failure \in {"provider_error", "malformed"}
    /\ Len(requests) = 1
    /\ Len(started) >= 2
    /\ calls = {}

-----------------------------------------------------------------------------
====
